---- MODULE Spec2Model ----
(***************************************************************************)
(* Model of git-worktree-tui: the Bubble Tea state machine of              *)
(* internal/tui/model.go (model.Update) together with the git layer it     *)
(* calls (internal/git).  Strings are sequences of one-character strings,  *)
(* so that trimming, prefix stripping and path operations are computed.    *)
(***************************************************************************)
EXTENDS Integers, Sequences, FiniteSets, Bags, TLC

\* ---------------------------------------------------------------- bounds
\* largest number of worktrees the repository holds (git fails beyond it)
MaxWorktrees == 3
\* largest number of successful worktree creations and removals in one run
MaxMutations == 1
\* longest text the inline input accepts (stands for input.CharLimit)
MaxBuf == 1
\* largest number of confirmation overlays stacked on one item
MaxOverlay == 2
\* largest number of commands and messages in flight at which a key may still
\* request a listing (a successful mutation always requests its refresh)
MaxOutstanding == 1
\* largest number of attribute blocks in one worktree listing handed to the parser
MaxBlocks == 3
\* largest number of lines in one branch query output handed to the parser
MaxLines == 2

\* --------------------------------------------------------------- strings
HasPrefix(s, p) == Len(s) >= Len(p) /\ SubSeq(s, 1, Len(p)) = p

TrimPrefix(s, p) == IF HasPrefix(s, p) THEN SubSeq(s, Len(p) + 1, Len(s)) ELSE s

RECURSIVE TrimLeft(_)
TrimLeft(s) == IF s # <<>> /\ Head(s) = " " THEN TrimLeft(Tail(s)) ELSE s

RECURSIVE TrimRight(_)
TrimRight(s) ==
  IF s # <<>> /\ s[Len(s)] = " " THEN TrimRight(SubSeq(s, 1, Len(s) - 1)) ELSE s

TrimSpace(s) == TrimRight(TrimLeft(s))

HasSuffix(s, p) == Len(s) >= Len(p) /\ SubSeq(s, Len(s) - Len(p) + 1, Len(s)) = p

\* index of the last "/" of s, 0 when there is none
LastSlash(s) ==
  LET I == {i \in 1..Len(s) : s[i] = "/"}
  IN IF I = {} THEN 0 ELSE CHOOSE i \in I : \A j \in I : j <= i

RECURSIVE StripSlashes(_)
StripSlashes(s) ==
  IF Len(s) > 1 /\ s[Len(s)] = "/" THEN StripSlashes(SubSeq(s, 1, Len(s) - 1)) ELSE s

\* filepath.Base
Base(p) ==
  IF p = <<>> THEN <<".">>
  ELSE LET q == StripSlashes(p)
       IN IF q = <<"/">> THEN q ELSE SubSeq(q, LastSlash(q) + 1, Len(q))

\* filepath.Dir
Dir(p) ==
  LET k == LastSlash(p)
  IN IF k = 0 THEN <<".">>
     ELSE IF k = 1 THEN <<"/">>
     ELSE StripSlashes(SubSeq(p, 1, k - 1))

\* repeated separators become one
RECURSIVE Squeeze(_)
Squeeze(p) ==
  IF Len(p) < 2 THEN p
  ELSE IF p[1] = "/" /\ p[2] = "/" THEN Squeeze(Tail(p))
  ELSE <<p[1]>> \o Squeeze(Tail(p))

\* filepath.Clean, as far as separators go: repeated ones are collapsed and a
\* trailing one is dropped ("." and ".." elements do not occur in the model)
Clean(p) == StripSlashes(Squeeze(p))

\* filepath.Join of two non-empty elements
Join(a, b) == Clean(a \o <<"/">> \o b)

\* ------------------------------------------------------- the repository
\* working directory the program is started in (the primary checkout)
Cwd == <<"/", "p", "/", "r">>

RefsHeads == <<"r", "e", "f", "s", "/", "h", "e", "a", "d", "s", "/">>
HeadsPfx == <<"h", "e", "a", "d", "s", "/">>
RefsPfx == <<"r", "e", "f", "s", "/">>
WorktreePfx == <<"w", "o", "r", "k", "t", "r", "e", "e", " ">>
BranchPfx == <<"b", "r", "a", "n", "c", "h", " ">>
HEADPfx == <<"H", "E", "A", "D", " ">>
BarePfx == <<"b", "a", "r", "e">>
DetachedPfx == <<"d", "e", "t", "a", "c", "h", "e", "d">>

\* git.Worktree
Worktree(path, branch, head, isMain) ==
  [Path |-> path, Branch |-> branch, HEAD |-> head, IsMain |-> isMain]

NoWorktree == Worktree(<<>>, <<>>, <<>>, FALSE)

\* git.Branch
Branch(name, isRemote, remote, remoteRef, hasUp, up, upRemote) ==
  [Name |-> name, IsRemote |-> isRemote, Remote |-> remote, RemoteRef |-> remoteRef,
   HasUpstream |-> hasUp, Upstream |-> up, UpstreamRemote |-> upRemote]

NoBranch == Branch(<<>>, FALSE, <<>>, <<>>, FALSE, <<>>, <<>>)

\* mutant: the directory is placed under .worktrees of the working directory
DefaultWorktreeDirLocal(okCwd, cwd, branch) == Join(<<".worktrees">>, branch)

\* git.DefaultWorktreeDir, given whether os.Getwd succeeded and what it returned:
\* a sibling of the working directory, "<repo>-<branch>"
DefaultWorktreeDirIn(okCwd, cwd, branch) ==
  IF ~okCwd THEN Join(<<".worktrees">>, branch)
  ELSE Join(Dir(cwd), Base(cwd) \o <<"-">> \o branch)

\* git.DefaultWorktreeDir in the working directory of the model
DefaultWorktreeDir(branch) == DefaultWorktreeDirIn(TRUE, Cwd, branch)

\* ------------------------------------------------ git: the external tool
\* head commit every checkout of the model is at
HeadCommit == <<"a", "1">>

\* remote-tracking refs of the repository, as `for-each-ref refs/remotes` prints them
RemoteRefs == << <<"o", "/", "H", "E", "A", "D">>, <<"o", "/", "m">>, <<"o", "/", "y">> >>

\* upstream short name git reports for a local branch ("" when it tracks nothing)
UpstreamOf(name) ==
  IF \E i \in 1..Len(RemoteRefs) : RemoteRefs[i] = <<"o", "/">> \o name
  THEN <<"o", "/">> \o name ELSE <<>>

\* output of `git worktree list --porcelain`, line by line
RECURSIVE PorcelainOf(_)
PorcelainOf(wts) ==
  IF wts = <<>> THEN <<>>
  ELSE LET w == Head(wts)
       IN << WorktreePfx \o w.Path, HEADPfx \o w.HEAD,
             IF w.Branch = <<>> THEN DetachedPfx ELSE BranchPfx \o w.Branch,
             <<>> >> \o PorcelainOf(Tail(wts))

\* output of `git for-each-ref --format=%(refname:short)|%(upstream:short) refs/heads`
RECURSIVE LocalLinesOf(_)
LocalLinesOf(brs) ==
  IF brs = <<>> THEN <<>>
  ELSE << Head(brs) \o <<"|">> \o UpstreamOf(Head(brs)) >> \o LocalLinesOf(Tail(brs))

\* mutant: a "worktree" line starts a record that keeps the attributes seen so far
ScanLineSticky(acc, line) ==
  IF HasPrefix(line, WorktreePfx)
  THEN [wts |-> IF acc.inBlock THEN Append(acc.wts, acc.wt) ELSE acc.wts,
        inBlock |-> TRUE,
        wt |-> [acc.wt EXCEPT !.Path = TrimSpace(TrimPrefix(line, WorktreePfx)),
                              !.IsMain = TRUE]]
  ELSE IF HasPrefix(line, BranchPfx)
  THEN [acc EXCEPT !.wt.Branch = TrimSpace(TrimPrefix(line, BranchPfx))]
  ELSE IF HasPrefix(line, HEADPfx)
  THEN [acc EXCEPT !.wt.HEAD = TrimSpace(TrimPrefix(line, HEADPfx))]
  ELSE acc

\* one step of the scanner loop of git.ListWorktrees
ScanLine(acc, line) ==
  IF HasPrefix(line, WorktreePfx)
  THEN [wts |-> IF acc.inBlock THEN Append(acc.wts, acc.wt) ELSE acc.wts,
        inBlock |-> TRUE,
        wt |-> Worktree(TrimSpace(TrimPrefix(line, WorktreePfx)), <<>>, <<>>, TRUE)]
  ELSE IF HasPrefix(line, BranchPfx)
  THEN [acc EXCEPT !.wt.Branch = TrimSpace(TrimPrefix(line, BranchPfx))]
  ELSE IF HasPrefix(line, HEADPfx)
  THEN [acc EXCEPT !.wt.HEAD = TrimSpace(TrimPrefix(line, HEADPfx))]
  ELSE acc

RECURSIVE ScanLines(_, _)
ScanLines(acc, lines) ==
  IF lines = <<>> THEN acc ELSE ScanLines(ScanLine(acc, Head(lines)), Tail(lines))

\* mutant: the IsMain default of the scan loop is left as it is
MarkMainKeep(wts) == wts

\* the first entry is the main worktree, every other one is not
MarkMain(wts) == [i \in 1..Len(wts) |-> [wts[i] EXCEPT !.IsMain = (i = 1)]]

\* git.ListWorktrees on the lines git printed
ListWorktrees(lines) ==
  LET acc == ScanLines([wts |-> <<>>, inBlock |-> FALSE, wt |-> NoWorktree], lines)
      wts == IF acc.inBlock THEN Append(acc.wts, acc.wt) ELSE acc.wts
  IN MarkMain(wts)

\* index of the first occurrence of character c in s, 0 when there is none
IndexOf(s, c) ==
  LET I == {i \in 1..Len(s) : s[i] = c}
  IN IF I = {} THEN 0 ELSE CHOOSE i \in I : \A j \in I : i <= j

\* a local line "name|upstream" of git.ListBranchesDetailed
LocalBranchOf(l) ==
  LET k == IndexOf(l, "|")
      name == IF k = 0 THEN l ELSE TrimSpace(SubSeq(l, 1, k - 1))
      up == IF k = 0 THEN <<>> ELSE TrimSpace(SubSeq(l, k + 1, Len(l)))
      s == IndexOf(up, "/")
  IN IF up = <<>> THEN Branch(name, FALSE, <<>>, <<>>, FALSE, <<>>, <<>>)
     ELSE Branch(name, FALSE, <<>>, <<>>, TRUE, up,
                 IF s = 0 THEN up ELSE SubSeq(up, 1, s - 1))

RECURSIVE LocalBranches(_)
LocalBranches(lines) ==
  IF lines = <<>> THEN <<>>
  ELSE LET l == TrimSpace(Head(lines))
       IN IF l = <<>> THEN LocalBranches(Tail(lines))
          ELSE <<LocalBranchOf(l)>> \o LocalBranches(Tail(lines))

\* mutant: no name is remembered as seen
NamesNone(brs) == {}

\* the short names seen so far
Names(brs) == {brs[i].Name : i \in 1..Len(brs)}

\* mutant: symbolic HEAD pointers are listed like branches
IsHeadPointerNever(l) == FALSE

\* a remote ref that is a symbolic HEAD pointer, e.g. origin/HEAD
IsHeadPointer(l) == HasSuffix(l, <<"/", "H", "E", "A", "D">>)

\* the remote loop of git.ListBranchesDetailed: skips HEAD pointers and seen names
RECURSIVE MergeRemotes(_, _)
MergeRemotes(brs, lines) ==
  IF lines = <<>> THEN brs
  ELSE LET l == TrimSpace(Head(lines))
           k == IndexOf(l, "/")
           name == SubSeq(l, k + 1, Len(l))
       IN IF \/ l = <<>>
             \/ IsHeadPointer(l)
             \/ k = 0
             \/ name \in Names(brs)
          THEN MergeRemotes(brs, Tail(lines))
          ELSE MergeRemotes(Append(brs, Branch(name, TRUE, SubSeq(l, 1, k - 1), l,
                                               FALSE, <<>>, <<>>)), Tail(lines))

\* mutant: the merged listing is returned last entry first
ListBranchesDetailedReversed(okLocal, localLines, okRemote, remoteLines) ==
  LET brs == MergeRemotes(IF okLocal THEN LocalBranches(localLines) ELSE <<>>,
                          IF okRemote THEN remoteLines ELSE <<>>)
  IN [i \in 1..Len(brs) |-> brs[Len(brs) + 1 - i]]

\* git.ListBranchesDetailed: a query that failed contributes nothing
ListBranchesDetailed(okLocal, localLines, okRemote, remoteLines) ==
  MergeRemotes(IF okLocal THEN LocalBranches(localLines) ELSE <<>>,
               IF okRemote THEN remoteLines ELSE <<>>)

\* --------------------------------------------------------------- state
VARIABLES
  state,         \* model.state
  list,          \* items of model.list
  listIdx,       \* model.list.Index()
  branches,      \* items of model.branches
  brIdx,         \* model.branches.Index()
  input,         \* model.input.Value()
  focus,         \* model.input.Focused()
  editing,       \* model.branchDel.editing
  confirmIndex,  \* model.confirmIndex
  confirmPrev,   \* model.confirmPrev
  selected,      \* model.selected
  repoWts,       \* the repository's worktrees, main first (the external truth)
  repoBr,        \* the repository's local branches
  mutations,     \* successful creations and removals so far
  callIn,        \* what the environment hands to one call of a git-layer function
  callOut,       \* what that call returned
  runLW,         \* loadWorktrees commands dispatched and not yet run
  runLB,         \* loadBranches commands dispatched and not yet run
  msgs,          \* completion messages not yet consumed by Update (a bag)
  quit,          \* tea.Quit was returned: the program has terminated
  editor,        \* "none", "running" (ExecProcess blocks the event loop)
  ev,            \* the event the last Update consumed
  calls,         \* git-package calls the last Update made, in order
  cmds,          \* commands the last Update returned
  notice,        \* status message the last Update set
  pre            \* list, confirmIndex and confirmPrev before the last Update

ui == <<state, list, listIdx, branches, brIdx, input, focus, editing,
        confirmIndex, confirmPrev, selected>>
world == <<repoWts, repoBr, mutations, callIn, callOut>>
async == <<runLW, runLB, msgs>>
proc == <<quit, editor>>
hist == <<ev, calls, cmds, notice, pre>>
vars == <<ui, world, async, proc, hist>>

\* the item type of model.go
Item(title, desc, wt, isAdd, br) ==
  [title |-> title, desc |-> desc, wt |-> wt, isAdd |-> isAdd, br |-> br]

NoItem == Item(<<>>, <<>>, NoWorktree, FALSE, NoBranch)

AddWorktreeItem ==
  Item(<<"[+] Add new worktree">>, <<"Create from existing or new branch">>,
       NoWorktree, TRUE, NoBranch)

AddBranchLabel == <<"[+] Create new branch">>

\* mutant: the first item of the branch list is not marked isAdd
AddBranchItemPlain == Item(AddBranchLabel, <<"Type a new branch name">>, NoWorktree, FALSE, NoBranch)

AddBranchItem == Item(AddBranchLabel, <<"Type a new branch name">>, NoWorktree, TRUE, NoBranch)

\* display name of a worktree's branch: the ref without its refs prefix
ShortBranch(wt) ==
  LET b == IF wt.Branch = <<>> THEN wt.HEAD ELSE wt.Branch
  IN IF HasPrefix(b, RefsHeads) THEN TrimPrefix(b, RefsHeads)
     ELSE IF HasPrefix(b, HeadsPfx) THEN TrimPrefix(b, HeadsPfx)
     ELSE IF HasPrefix(b, RefsPfx) THEN TrimPrefix(b, RefsPfx)
     ELSE b

\* mutant: the handler builds items that do not carry their worktree
WorktreeItemBlank(wt) == NoItem

\* the list item built for one worktree by the loadedWorktreesMsg handler
WorktreeItem(wt) ==
  LET b == ShortBranch(wt)
      segB == IF b # <<>> THEN <<"Branch:", " ">> \o b \o <<"  ">> ELSE <<>>
  IN Item(Base(wt.Path), segB \o <<"Path:", " ">> \o wt.Path, wt, FALSE, NoBranch)

\* the list item built for one branch by the loadedBranchesMsg handler
BranchItem(b) ==
  LET up == TrimSpace(b.Upstream)
      desc == IF b.IsRemote THEN <<>>
              ELSE IF up = <<>> THEN <<"No remote">>
              ELSE <<"Tracking:", " ">> \o up
  IN Item(b.Name, desc, NoWorktree, FALSE, b)

ConfirmPrefix == "Are you sure you want to delete: "

\* the confirmation overlay the `d` handler puts in place of an item
ConfirmItem(it) ==
  [it EXCEPT !.title = <<ConfirmPrefix>> \o it.title,
             !.desc = <<"Yes: Enter    No: Esc">>]

\* number of confirmation overlays an item's title carries
OverlayDepth(it) == Cardinality({i \in 1..Len(it.title) : it.title[i] = ConfirmPrefix})

\* mutant: the handlers never take an item for a synthetic one
IsAddItemNever(it) == FALSE

\* the `it.isAdd` test of the d and enter handlers
IsAddItem(it) == it.isAdd

\* list.Model.SelectedItem(): idx is 0-based, none when out of range
HasSelected(items, idx) == idx >= 0 /\ idx < Len(items)
SelectedItem(items, idx) == items[idx + 1]

\* mutant: the snapshot is never written back
RestoreConfirmNoop(items, idx, prev) == items

\* restore the item under confirmation from its snapshot (index checked as the code does)
RestoreConfirm(items, idx, prev) ==
  IF idx >= 0 /\ idx < Len(items) THEN [items EXCEPT ![idx + 1] = prev] ELSE items

\* cursor of a list after a movement key: kept inside the items
Clamp(i, n) == IF i < 0 \/ n = 0 THEN 0 ELSE IF i > n - 1 THEN n - 1 ELSE i

\* ----------------------------------------------------------- recording
Event(kind, key) == [kind |-> kind, key |-> key]
NoNotice == [on |-> "none", kind |-> "none", arg |-> <<>>]
Notice(on, kind, arg) == [on |-> on, kind |-> kind, arg |-> arg]
Call(op, branch, path, flag, ok) ==
  [op |-> op, branch |-> branch, path |-> path, flag |-> flag, ok |-> ok]

Record(e, c, d, n) ==
  /\ ev' = e
  /\ calls' = c
  /\ cmds' = d
  /\ notice' = n
  /\ pre' = [list |-> list, confirmIndex |-> confirmIndex, confirmPrev |-> confirmPrev]

Outstanding == runLW + runLB + BagCardinality(msgs)
CanDispatch == Outstanding < MaxOutstanding
Running == ~quit /\ editor = "none"

\* ----------------------------------------------------------------- Init
InitWts ==
  << [Path |-> Cwd, Branch |-> RefsHeads \o <<"m">>, HEAD |-> HeadCommit],
     [Path |-> <<"/", "p", "/", "w">>, Branch |-> <<>>, HEAD |-> HeadCommit] >>

\* initialModel, and Init() which dispatches the first loadWorktrees
InitModel ==
  /\ state = "stateList"
  /\ list = <<>> /\ listIdx = 0
  /\ branches = <<>> /\ brIdx = 0
  /\ input = <<>> /\ focus = FALSE /\ editing = FALSE
  /\ confirmIndex = -1 /\ confirmPrev = NoItem /\ selected = NoWorktree
  /\ repoWts = InitWts
  /\ repoBr = << <<"m">>, <<"b">> >>
  /\ mutations = 0
  /\ runLW = 1 /\ runLB = 0 /\ msgs = EmptyBag
  /\ quit = FALSE /\ editor = "none"
  /\ ev = Event("init", "init") /\ calls = <<>> /\ cmds = <<"loadWorktrees">>
  /\ notice = NoNotice
  /\ pre = [list |-> <<>>, confirmIndex |-> -1, confirmPrev |-> NoItem]

\* one call of a function with its inputs; its result
CallIn(op, ok1, ok2, x, y, z) == [op |-> op, ok1 |-> ok1, ok2 |-> ok2, x |-> x, y |-> y, z |-> z]
NoCall == CallIn("none", FALSE, FALSE, <<>>, <<>>, <<>>)
Result(val, err) == [done |-> TRUE, val |-> val, err |-> err]
NoResult == [done |-> FALSE, val |-> <<>>, err |-> FALSE]

\* the program as started by main
Init == InitModel /\ callIn = NoCall /\ callOut = NoResult

\* ------------------------------------------------- mutation operations
Paths(wts) == {wts[i].Path : i \in 1..Len(wts)}
InSeq(x, sq) == \E i \in 1..Len(sq) : sq[i] = x
RemoteHas(name) == \E i \in 1..Len(RemoteRefs) : RemoteRefs[i] = <<"o", "/">> \o name
CheckedOut(name) == \E i \in 1..Len(repoWts) : repoWts[i].Branch = RefsHeads \o name

\* one way a mutation call can end: ext lists what it did outside the process, in
\* order ("mkdir" for os.MkdirAll, "git" for the external tool)
Outcome(ok, ext, wts, brs) == [ok |-> ok, ext |-> ext, wts |-> wts, brs |-> brs]

\* the repository after a call with outcome o
Effect(o) ==
  /\ repoWts' = o.wts
  /\ repoBr' = o.brs
  /\ mutations' = IF o.ok THEN mutations + 1 ELSE mutations
  /\ UNCHANGED <<callIn, callOut>>

\* `git worktree remove`: only a linked (non-main) worktree can be removed
GitRemoveOk(path) == \E i \in 2..Len(repoWts) : repoWts[i].Path = path

\* git.RemoveWorktree(path, force): every outcome the call can have
RemoveWorktree(path, force) ==
  IF path = <<>> THEN {Outcome(FALSE, <<>>, repoWts, repoBr)}
  ELSE {Outcome(FALSE, <<"git">>, repoWts, repoBr)} \cup
       (IF GitRemoveOk(path) /\ mutations < MaxMutations
        THEN {Outcome(TRUE, <<"git">>, SelectSeq(repoWts, LAMBDA w : w.Path # path), repoBr)}
        ELSE {})

\* `git worktree add [-b] ...` can succeed
GitAddOk(branch, targetDir, createBranch) ==
  /\ Len(repoWts) < MaxWorktrees /\ mutations < MaxMutations
  /\ targetDir \notin Paths(repoWts)
  /\ ~InSeq(" ", branch)
  /\ IF createBranch THEN ~InSeq(branch, repoBr)
     ELSE (InSeq(branch, repoBr) \/ RemoteHas(branch)) /\ ~CheckedOut(branch)

\* mutant: the arguments are handed on unchecked
CreateArgsMissingNever(branch, targetDir) == FALSE

\* the argument check at the head of git.CreateWorktree
CreateArgsMissing(branch, targetDir) == branch = <<>> \/ targetDir = <<>>

\* git.CreateWorktree(branch, targetDir, createBranch): every outcome; os.MkdirAll
\* on the parent directory comes first and can fail
CreateWorktree(branch, targetDir, createBranch) ==
  IF CreateArgsMissing(branch, targetDir) THEN {Outcome(FALSE, <<>>, repoWts, repoBr)}
  ELSE {Outcome(FALSE, <<"mkdir">>, repoWts, repoBr),
        Outcome(FALSE, <<"mkdir", "git">>, repoWts, repoBr)} \cup
       (IF GitAddOk(branch, targetDir, createBranch)
        THEN {Outcome(TRUE, <<"mkdir", "git">>,
                      Append(repoWts, [Path |-> targetDir, Branch |-> RefsHeads \o branch,
                                       HEAD |-> HeadCommit]),
                      IF InSeq(branch, repoBr) THEN repoBr ELSE Append(repoBr, branch))}
        ELSE {})

\* `git worktree add -b <branch> <dir> <fromRef>` can succeed
GitAddFromRefOk(branch, targetDir, fromRef) ==
  /\ Len(repoWts) < MaxWorktrees /\ mutations < MaxMutations
  /\ targetDir \notin Paths(repoWts)
  /\ ~InSeq(" ", branch)
  /\ ~InSeq(branch, repoBr)
  /\ InSeq(fromRef, RemoteRefs) \/ InSeq(fromRef, repoBr)

\* git.CreateWorktreeFromRef(branch, targetDir, fromRef): every outcome
CreateWorktreeFromRef(branch, targetDir, fromRef) ==
  IF branch = <<>> \/ targetDir = <<>> \/ fromRef = <<>>
  THEN {Outcome(FALSE, <<>>, repoWts, repoBr)}
  ELSE {Outcome(FALSE, <<"mkdir">>, repoWts, repoBr),
        Outcome(FALSE, <<"mkdir", "git">>, repoWts, repoBr)} \cup
       (IF GitAddFromRefOk(branch, targetDir, fromRef)
        THEN {Outcome(TRUE, <<"mkdir", "git">>,
                      Append(repoWts, [Path |-> targetDir, Branch |-> RefsHeads \o branch,
                                       HEAD |-> HeadCommit]),
                      Append(repoBr, branch))}
        ELSE {})

\* --------------------------------------------- asynchronous commands
LoadedWorktreesMsg(wts, err) ==
  [type |-> "loadedWorktrees", wts |-> wts, branches |-> <<>>, err |-> err]
LoadedBranchesMsg(brs, err) ==
  [type |-> "loadedBranches", wts |-> <<>>, branches |-> brs, err |-> err]

\* loadWorktrees runs: it reads the repository as it is now
loadWorktrees ==
  /\ Running /\ runLW > 0
  /\ \E ok \in BOOLEAN :
       msgs' = msgs (+) SetToBag({IF ok
                                  THEN LoadedWorktreesMsg(ListWorktrees(PorcelainOf(repoWts)), FALSE)
                                  ELSE LoadedWorktreesMsg(<<>>, TRUE)})
  /\ runLW' = runLW - 1
  /\ UNCHANGED <<runLB, ui, world, proc, hist>>

\* loadBranches runs: ListBranchesDetailed never reports an error
loadBranches ==
  /\ Running /\ runLB > 0
  /\ msgs' = msgs (+) SetToBag({LoadedBranchesMsg(
                ListBranchesDetailed(TRUE, LocalLinesOf(repoBr), TRUE, RemoteRefs), FALSE)})
  /\ runLB' = runLB - 1
  /\ UNCHANGED <<runLW, ui, world, proc, hist>>

\* Update(loadedWorktreesMsg)
OnLoadedWorktrees ==
  /\ Running
  /\ \E msg \in BagToSet(msgs) :
       /\ msg.type = "loadedWorktrees"
       /\ msgs' = msgs (-) SetToBag({msg})
       /\ IF msg.err
          THEN /\ UNCHANGED ui
               /\ Record(Event("msg", "loadedWorktrees"), <<>>, <<>>,
                         Notice("list", "Error", <<>>))
          ELSE /\ list' = <<AddWorktreeItem>> \o
                          [i \in 1..Len(msg.wts) |-> WorktreeItem(msg.wts[i])]
               /\ confirmIndex' = -1
               /\ UNCHANGED <<state, listIdx, branches, brIdx, input, focus, editing,
                              confirmPrev, selected>>
               /\ Record(Event("msg", "loadedWorktrees"), <<>>, <<>>, NoNotice)
  /\ UNCHANGED <<runLW, runLB, world, proc>>

\* Update(loadedBranchesMsg)
OnLoadedBranches ==
  /\ Running
  /\ \E msg \in BagToSet(msgs) :
       /\ msg.type = "loadedBranches"
       /\ msgs' = msgs (-) SetToBag({msg})
       /\ IF msg.err
          THEN /\ UNCHANGED ui
               /\ Record(Event("msg", "loadedBranches"), <<>>, <<>>,
                         Notice("branches", "Error", <<>>))
          ELSE /\ branches' = <<AddBranchItem>> \o
                              [i \in 1..Len(msg.branches) |-> BranchItem(msg.branches[i])]
               /\ UNCHANGED <<state, list, listIdx, brIdx, input, focus, editing,
                              confirmIndex, confirmPrev, selected>>
               /\ Record(Event("msg", "loadedBranches"), <<>>, <<>>, NoNotice)
  /\ UNCHANGED <<runLW, runLB, world, proc>>

\* mutant: the program quits only when the editor exited without error
EditorDoneQuitsOnSuccess(err) == ~err

\* the editorDoneMsg handler returns tea.Quit without looking at msg.err
EditorDoneQuits(err) == TRUE

\* Update(editorDoneMsg): the editor process ended, with or without an error
OnEditorDone ==
  /\ ~quit /\ editor = "running"
  /\ \E err \in BOOLEAN :
       /\ quit' = EditorDoneQuits(err)
       /\ Record(Event("msg", IF err THEN "editorDoneErr" ELSE "editorDone"), <<>>,
                 IF EditorDoneQuits(err) THEN <<"quit">> ELSE <<>>, NoNotice)
  /\ editor' = "none"
  /\ UNCHANGED <<ui, world, async>>

\* ------------------------------------------------------- keys: any state
\* mutant: no ctrl+c check ahead of the per-state key switch
GlobalQuitNever(k) == FALSE

\* the check made ahead of the per-state key switch: ctrl+c always quits
GlobalQuit(k) == k = "ctrl+c"

\* ctrl+c in any state; q (and ctrl+c) in stateList
KeyQuit ==
  /\ Running
  /\ \E k \in {"ctrl+c", "q"} :
       /\ GlobalQuit(k) \/ state = "stateList"
       /\ Record(Event("key", k), <<>>, <<"quit">>, NoNotice)
  /\ quit' = TRUE
  /\ UNCHANGED <<ui, world, async, editor>>

\* ------------------------------------------------------ keys: stateList
\* esc: cancel the inline delete confirmation if one is active
KeyListEsc ==
  /\ Running /\ state = "stateList"
  /\ IF confirmIndex # -1
     THEN /\ list' = RestoreConfirm(list, confirmIndex, confirmPrev)
          /\ confirmIndex' = -1
     ELSE UNCHANGED <<list, confirmIndex>>
  /\ Record(Event("key", "esc"), <<>>, <<>>, NoNotice)
  /\ UNCHANGED <<state, listIdx, branches, brIdx, input, focus, editing,
                 confirmPrev, selected, world, async, proc>>

\* r: forget the confirmation index and reload
KeyListR ==
  /\ Running /\ state = "stateList" /\ CanDispatch
  /\ confirmIndex' = -1
  /\ runLW' = runLW + 1
  /\ Record(Event("key", "r"), <<>>, <<"loadWorktrees">>, NoNotice)
  /\ UNCHANGED <<state, list, listIdx, branches, brIdx, input, focus, editing,
                 confirmPrev, selected, world, runLB, msgs, proc>>

\* a: open the branch picker
KeyListA ==
  /\ Running /\ state = "stateList" /\ CanDispatch
  /\ state' = "stateAddPick"
  /\ runLB' = runLB + 1
  /\ Record(Event("key", "a"), <<>>, <<"loadBranches">>, NoNotice)
  /\ UNCHANGED <<list, listIdx, branches, brIdx, input, focus, editing,
                 confirmIndex, confirmPrev, selected, world, runLW, msgs, proc>>

\* the guard under which enter means "yes, delete"
EnterConfirms == confirmIndex # -1 /\ listIdx = confirmIndex

\* mutant: the removal is not forced
RemoveForceOff == FALSE

\* the force argument the enter handler passes to git.RemoveWorktree
RemoveForce == TRUE

\* enter on the item under confirmation: remove the remembered worktree
KeyListEnterConfirm ==
  /\ Running /\ state = "stateList"
  /\ EnterConfirms
  /\ IF selected.Path # <<>>
     THEN \E o \in RemoveWorktree(selected.Path, RemoveForce) :
            /\ Effect(o)
            /\ confirmIndex' = -1
            /\ IF o.ok
               THEN /\ UNCHANGED list
                    /\ runLW' = runLW + 1
                    /\ Record(Event("key", "enter"),
                              <<Call("RemoveWorktree", <<>>, selected.Path, RemoveForce, TRUE)>>,
                              <<"loadWorktrees">>,
                              Notice("list", "Removed worktree", Base(selected.Path)))
               ELSE /\ list' = RestoreConfirm(list, confirmIndex, confirmPrev)
                    /\ UNCHANGED runLW
                    /\ Record(Event("key", "enter"),
                              <<Call("RemoveWorktree", <<>>, selected.Path, RemoveForce, FALSE)>>,
                              <<>>, Notice("list", "Error", <<>>))
     ELSE /\ UNCHANGED <<list, confirmIndex, world, runLW>>
          /\ Record(Event("key", "enter"), <<>>, <<>>, NoNotice)
  /\ UNCHANGED <<state, listIdx, branches, brIdx, input, focus, editing,
                 confirmPrev, selected, runLB, msgs, proc>>

\* values VISUAL and EDITOR can have in the environment
EnvValues == {<<>>, <<"v", "i">>, <<"e", "d">>}

\* mutant: EDITOR takes precedence over VISUAL
buildEditorCmdEditorFirst(visual, editorVar) == IF editorVar = <<>> THEN visual ELSE editorVar

\* mutant: a built-in editor is used when the environment names none
buildEditorCmdFallback(visual, editorVar) ==
  IF visual # <<>> THEN visual ELSE IF editorVar # <<>> THEN editorVar ELSE <<"v", "i">>

\* buildEditorCmd: the editor to launch, <<>> when none is configured
buildEditorCmd(visual, editorVar) == IF visual = <<>> THEN editorVar ELSE visual

\* the two os.Getenv reads of buildEditorCmd, recorded with what they returned:
\* field branch holds the value of VISUAL, field path the value of EDITOR
Getenv(visual, editorVar) == Call("Getenv", visual, editorVar, FALSE, TRUE)

\* exec.Command(editor, path): field branch holds the program, field path its argument
ExecCall(e, path) == Call("exec", e, path, FALSE, TRUE)

\* enter on an ordinary item: the add entry opens the picker, a worktree the editor
KeyListEnterOpen ==
  /\ Running /\ state = "stateList" /\ CanDispatch
  /\ ~EnterConfirms
  /\ IF HasSelected(list, listIdx) /\ IsAddItem(SelectedItem(list, listIdx))
     THEN /\ state' = "stateAddPick"
          /\ runLB' = runLB + 1
          /\ Record(Event("key", "enter"), <<>>, <<"loadBranches">>, NoNotice)
          /\ UNCHANGED editor
     ELSE IF HasSelected(list, listIdx) /\ SelectedItem(list, listIdx).wt.Path # <<>>
     THEN \E visual \in EnvValues, editorVar \in EnvValues :
            LET e == buildEditorCmd(visual, editorVar)
                path == SelectedItem(list, listIdx).wt.Path
            IN IF e = <<>>
               THEN /\ Record(Event("key", "enter"), <<Getenv(visual, editorVar)>>, <<>>,
                              Notice("list", "No editor", <<>>))
                    /\ UNCHANGED <<state, runLB, editor>>
               ELSE /\ Record(Event("key", "enter"),
                              <<Getenv(visual, editorVar), ExecCall(e, path)>>,
                              <<"exec">>, NoNotice)
                    /\ editor' = "running"
                    /\ UNCHANGED <<state, runLB>>
     ELSE /\ Record(Event("key", "enter"), <<>>, <<>>, NoNotice)
          /\ UNCHANGED <<state, runLB, editor>>
  /\ UNCHANGED <<list, listIdx, branches, brIdx, input, focus, editing, confirmIndex,
                 confirmPrev, selected, world, runLW, msgs, quit>>

\* mutant: the `d` handler without its IsMain check
IsMainItemNever(it) == FALSE

\* the `d` handler refuses this item with the "Cannot delete main worktree" notice
IsMainItem(it) == it.wt.IsMain

\* mutant: the `d` handler forgets to restore the earlier confirmation
RestoreEarlierSkip(items, idx, prev) == items

\* the item list after the `d` handler restored an earlier confirmation, if any
RestoreEarlier(items, idx, prev) ==
  IF idx # -1 THEN RestoreConfirm(items, idx, prev) ELSE items

\* d: start the inline delete confirmation on the selected worktree
KeyListD ==
  /\ Running /\ state = "stateList"
  /\ HasSelected(list, listIdx) => OverlayDepth(SelectedItem(list, listIdx)) < MaxOverlay
  /\ IF ~HasSelected(list, listIdx) \/ IsAddItem(SelectedItem(list, listIdx))
     THEN /\ UNCHANGED <<list, confirmIndex, confirmPrev, selected>>
          /\ Record(Event("key", "d"), <<>>, <<>>, NoNotice)
     ELSE IF IsMainItem(SelectedItem(list, listIdx))
     THEN /\ UNCHANGED <<list, confirmIndex, confirmPrev, selected>>
          /\ Record(Event("key", "d"), <<>>, <<>>,
                    Notice("list", "Cannot delete main worktree", <<>>))
     ELSE LET it == SelectedItem(list, listIdx)
              items == RestoreEarlier(list, confirmIndex, confirmPrev)
          IN /\ selected' = it.wt
             /\ confirmIndex' = listIdx
             /\ confirmPrev' = it
             /\ list' = [items EXCEPT ![listIdx + 1] = ConfirmItem(it)]
             /\ Record(Event("key", "d"), <<>>, <<>>, NoNotice)
  /\ UNCHANGED <<state, listIdx, branches, brIdx, input, focus, editing,
                 world, async, proc>>

\* any other key goes to the list: up and down move the cursor
KeyListMove ==
  /\ Running /\ state = "stateList"
  /\ \E k \in {"up", "down"} :
       /\ listIdx' = Clamp(IF k = "up" THEN listIdx - 1 ELSE listIdx + 1, Len(list))
       /\ Record(Event("key", k), <<>>, <<>>, NoNotice)
  /\ UNCHANGED <<state, list, branches, brIdx, input, focus, editing, confirmIndex,
                 confirmPrev, selected, world, async, proc>>

\* --------------------------------------------------- keys: stateAddPick
\* characters the keyboard can type into the inline input
Alphabet == {" ", "x"}

\* mutant: the handler of stateAddPick never takes the editing branch
InlineEditingOff(ed) == FALSE

\* the test `m.branchDel != nil && m.branchDel.editing` of the stateAddPick handler
InlineEditing(ed) == ed

\* updateAddItemTitle(val), given the value branchDel.editing has when it runs
updateAddItemTitle(items, val, ed) ==
  IF Len(items) = 0 \/ ~items[1].isAdd THEN items
  ELSE [items EXCEPT ![1].title =
          IF TrimSpace(val) = <<>> /\ ~ed THEN AddBranchLabel ELSE val]

\* mutant: the title of the add item is left as typed
resetAddItemTitleKeep(items, ed) == items

\* resetAddItemTitle
resetAddItemTitle(items, ed) == updateAddItemTitle(items, <<>>, ed)

\* mutant: a failed creation returns to the list, as the stateAddNewInput handler does
AfterCreateToList(ok, cur) == "stateList"

\* mutant: a failed creation falls back to the separate input screen
AfterCreateToInput(ok, cur) == IF ok THEN "stateList" ELSE "stateAddNewInput"

\* model.state after a creation attempt made in state cur
AfterCreate(ok, cur) == IF ok THEN "stateList" ELSE cur

\* mutant: the buffer is used untrimmed
EditedBranchRaw(value) == value

\* the branch name the editing enter handler creates
EditedBranch(value) == TrimSpace(value)

\* the createBranch flag the editing enter handler passes
EditCreateFlag == TRUE

\* editing, esc: leave the inline editor
KeyEditEsc ==
  /\ Running /\ state = "stateAddPick" /\ InlineEditing(editing)
  /\ editing' = FALSE /\ focus' = FALSE
  /\ branches' = resetAddItemTitle(branches, FALSE)
  /\ Record(Event("key", "esc"), <<>>, <<>>, NoNotice)
  /\ UNCHANGED <<state, list, listIdx, brIdx, input, confirmIndex, confirmPrev,
                 selected, world, async, proc>>

\* editing, enter: create a new branch and its worktree
KeyEditEnter ==
  /\ Running /\ state = "stateAddPick" /\ InlineEditing(editing)
  /\ LET branch == EditedBranch(input)
         path == DefaultWorktreeDir(branch)
     IN IF branch = <<>>
        THEN /\ UNCHANGED <<state, branches, focus, editing, world, runLW>>
             /\ Record(Event("key", "enter"), <<>>, <<>>, NoNotice)
        ELSE \E o \in CreateWorktree(branch, path, EditCreateFlag) :
               /\ Effect(o)
               /\ state' = AfterCreate(o.ok, state)
               /\ IF o.ok
                  THEN /\ editing' = FALSE /\ focus' = FALSE
                       /\ branches' = resetAddItemTitle(branches, FALSE)
                       /\ runLW' = runLW + 1
                       /\ Record(Event("key", "enter"),
                                 <<Call("CreateWorktree", branch, path, EditCreateFlag, TRUE)>>,
                                 <<"loadWorktrees">>,
                                 Notice("list", "Created worktree", Base(path)))
                  ELSE /\ UNCHANGED <<branches, focus, editing, runLW>>
                       /\ Record(Event("key", "enter"),
                                 <<Call("CreateWorktree", branch, path, EditCreateFlag, FALSE)>>,
                                 <<>>, Notice("branches", "Error", <<>>))
  /\ UNCHANGED <<list, listIdx, brIdx, input, confirmIndex, confirmPrev, selected,
                 runLB, msgs, proc>>

\* textinput.Update on a key: a character is appended, backspace deletes one
TypeKey(value, k) ==
  IF k = "backspace" THEN (IF value = <<>> THEN value ELSE SubSeq(value, 1, Len(value) - 1))
  ELSE IF Len(value) < MaxBuf THEN Append(value, k) ELSE value

\* editing, any other key: goes to the input, whose value is mirrored into the add item
KeyEditTypeOf(keys) ==
  /\ Running /\ state = "stateAddPick" /\ InlineEditing(editing)
  /\ \E k \in keys :
       /\ input' = IF focus THEN TypeKey(input, k) ELSE input
       /\ branches' = updateAddItemTitle(branches, input', editing)
       /\ Record(Event("key", k), <<>>, <<>>, NoNotice)
  /\ UNCHANGED <<state, list, listIdx, brIdx, focus, editing, confirmIndex, confirmPrev,
                 selected, world, async, proc>>

\* editing, a character of the alphabet or backspace
KeyEditType == KeyEditTypeOf(Alphabet \cup {"backspace"})

\* keys that are commands in the other modes
CommandKeys == {"q", "n", "a", "d", "r"}

\* editing, a key that is a command elsewhere
KeyEditCommandKey == KeyEditTypeOf(CommandKeys)

\* mutant: the text buffer keeps what it held
SetValueKeep(value, v) == value

\* textinput.SetValue: the buffer holds the new value, whatever it held
SetValue(value, v) == v

\* not editing, esc: back to the worktree list
KeyPickEsc ==
  /\ Running /\ state = "stateAddPick" /\ ~InlineEditing(editing)
  /\ state' = "stateList"
  /\ Record(Event("key", "esc"), <<>>, <<>>, NoNotice)
  /\ UNCHANGED <<list, listIdx, branches, brIdx, input, focus, editing, confirmIndex,
                 confirmPrev, selected, world, async, proc>>

\* not editing, n: start the inline editor on the add item
KeyPickN ==
  /\ Running /\ state = "stateAddPick" /\ ~InlineEditing(editing)
  /\ editing' = TRUE /\ input' = SetValue(input, <<>>) /\ focus' = TRUE
  /\ brIdx' = 0
  /\ branches' = updateAddItemTitle(branches, <<>>, TRUE)
  /\ Record(Event("key", "n"), <<>>, <<>>, NoNotice)
  /\ UNCHANGED <<state, list, listIdx, confirmIndex, confirmPrev, selected,
                 world, async, proc>>

\* the createBranch flag the picker's enter handler passes
PickCreateFlag == FALSE

\* not editing, enter: the add item starts the editor, a branch creates its worktree
KeyPickEnter ==
  /\ Running /\ state = "stateAddPick" /\ ~InlineEditing(editing)
  /\ IF ~HasSelected(branches, brIdx)
     THEN /\ UNCHANGED <<state, branches, input, focus, editing, world, runLW>>
          /\ Record(Event("key", "enter"), <<>>, <<>>, NoNotice)
     ELSE IF IsAddItem(SelectedItem(branches, brIdx))
     THEN /\ editing' = TRUE /\ input' = SetValue(input, <<>>) /\ focus' = TRUE
          /\ branches' = updateAddItemTitle(branches, <<>>, TRUE)
          /\ UNCHANGED <<state, world, runLW>>
          /\ Record(Event("key", "enter"), <<>>, <<>>, NoNotice)
     ELSE LET branchName == SelectedItem(branches, brIdx).br.Name
              path == DefaultWorktreeDir(branchName)
          IN \E o \in CreateWorktree(branchName, path, PickCreateFlag) :
               /\ Effect(o)
               /\ UNCHANGED <<branches, input, focus, editing>>
               /\ state' = AfterCreate(o.ok, state)
               /\ IF o.ok
                  THEN /\ runLW' = runLW + 1
                       /\ Record(Event("key", "enter"),
                                 <<Call("CreateWorktree", branchName, path, PickCreateFlag, TRUE)>>,
                                 <<"loadWorktrees">>,
                                 Notice("list", "Created worktree", Base(path)))
                  ELSE /\ UNCHANGED runLW
                       /\ Record(Event("key", "enter"),
                                 <<Call("CreateWorktree", branchName, path, PickCreateFlag, FALSE)>>,
                                 <<>>, Notice("branches", "Error", <<>>))
  /\ UNCHANGED <<list, listIdx, brIdx, confirmIndex, confirmPrev, selected,
                 runLB, msgs, proc>>

\* not editing, any other key goes to the branch list: up and down move the cursor
KeyPickMove ==
  /\ Running /\ state = "stateAddPick" /\ ~InlineEditing(editing)
  /\ \E k \in {"up", "down"} :
       /\ brIdx' = Clamp(IF k = "up" THEN brIdx - 1 ELSE brIdx + 1, Len(branches))
       /\ Record(Event("key", k), <<>>, <<>>, NoNotice)
  /\ UNCHANGED <<state, list, listIdx, branches, input, focus, editing, confirmIndex,
                 confirmPrev, selected, world, async, proc>>

\* not editing, q goes to the branch list, whose own key map quits on it
KeyPickQ ==
  /\ Running /\ state = "stateAddPick" /\ ~InlineEditing(editing)
  /\ quit' = TRUE
  /\ Record(Event("key", "q"), <<>>, <<"quit">>, NoNotice)
  /\ UNCHANGED <<ui, world, async, editor>>

\* ------------------------------- keys: stateAddNewInput, stateConfirmDelete
\* the handler of stateAddNewInput: esc goes back to the list, enter creates the
\* typed branch and goes back to the list whether or not that worked, any other
\* key goes to the input
KeyAddNewInput ==
  /\ Running /\ state = "stateAddNewInput"
  /\ \/ /\ state' = "stateList"
        /\ Record(Event("key", "esc"), <<>>, <<>>, NoNotice)
        /\ UNCHANGED <<input, world, runLW>>
     \/ LET branch == EditedBranch(input)
            path == DefaultWorktreeDir(branch)
        IN IF branch = <<>>
           THEN /\ Record(Event("key", "enter"), <<>>, <<>>, NoNotice)
                /\ UNCHANGED <<state, input, world, runLW>>
           ELSE \E o \in CreateWorktree(branch, path, TRUE) :
                  /\ Effect(o)
                  /\ state' = "stateList"
                  /\ UNCHANGED input
                  /\ IF o.ok
                     THEN /\ runLW' = runLW + 1
                          /\ Record(Event("key", "enter"),
                                    <<Call("CreateWorktree", branch, path, TRUE, TRUE)>>,
                                    <<"loadWorktrees">>,
                                    Notice("list", "Created worktree", Base(path)))
                     ELSE /\ UNCHANGED runLW
                          /\ Record(Event("key", "enter"),
                                    <<Call("CreateWorktree", branch, path, TRUE, FALSE)>>,
                                    <<>>, Notice("list", "Error", <<>>))
     \/ \E k \in Alphabet \cup {"backspace"} :
          /\ input' = IF focus THEN TypeKey(input, k) ELSE input
          /\ Record(Event("key", k), <<>>, <<>>, NoNotice)
          /\ UNCHANGED <<state, world, runLW>>
  /\ UNCHANGED <<list, listIdx, branches, brIdx, focus, editing, confirmIndex,
                 confirmPrev, selected, runLB, msgs, proc>>

\* the handler of stateConfirmDelete: esc goes back to the list, enter removes
\* m.selected.Path with force and goes back to the list; other keys do nothing
KeyConfirmDelete ==
  /\ Running /\ state = "stateConfirmDelete"
  /\ state' = "stateList"
  /\ \/ /\ Record(Event("key", "esc"), <<>>, <<>>, NoNotice)
        /\ UNCHANGED <<world, runLW>>
     \/ \E o \in RemoveWorktree(selected.Path, TRUE) :
          /\ Effect(o)
          /\ IF o.ok
             THEN /\ runLW' = runLW + 1
                  /\ Record(Event("key", "enter"),
                            <<Call("RemoveWorktree", <<>>, selected.Path, TRUE, TRUE)>>,
                            <<"loadWorktrees">>,
                            Notice("list", "Removed worktree", Base(selected.Path)))
             ELSE /\ UNCHANGED runLW
                  /\ Record(Event("key", "enter"),
                            <<Call("RemoveWorktree", <<>>, selected.Path, TRUE, FALSE)>>,
                            <<>>, Notice("list", "Error", <<>>))
  /\ UNCHANGED <<list, listIdx, branches, brIdx, input, focus, editing, confirmIndex,
                 confirmPrev, selected, runLB, msgs, proc>>

\* ------------------------------------------------------- specification
Next ==
  \/ loadWorktrees
  \/ loadBranches
  \/ OnLoadedWorktrees
  \/ OnLoadedBranches
  \/ OnEditorDone
  \/ KeyQuit
  \/ KeyListEsc
  \/ KeyListR
  \/ KeyListA
  \/ KeyListEnterConfirm
  \/ KeyListEnterOpen
  \/ KeyListD
  \/ KeyListMove
  \/ KeyEditEsc
  \/ KeyEditEnter
  \/ KeyEditType
  \/ KeyPickEsc
  \/ KeyPickN
  \/ KeyPickEnter
  \/ KeyPickMove
  \/ KeyPickQ

Spec == Init /\ [][Next]_vars

\* the program right after `a` was pressed at startup: the picker is open while
\* the first listing and the branch query are both still to run
InitPicking ==
  /\ state = "stateAddPick"
  /\ list = <<>> /\ listIdx = 0
  /\ branches = <<>> /\ brIdx = 0
  /\ input = <<>> /\ focus = FALSE /\ editing = FALSE
  /\ confirmIndex = -1 /\ confirmPrev = NoItem /\ selected = NoWorktree
  /\ repoWts = InitWts
  /\ repoBr = << <<"m">>, <<"b">> >>
  /\ mutations = 0
  /\ callIn = NoCall /\ callOut = NoResult
  /\ runLW = 1 /\ runLB = 1 /\ msgs = EmptyBag
  /\ quit = FALSE /\ editor = "none"
  /\ ev = Event("key", "a") /\ calls = <<>> /\ cmds = <<"loadBranches">>
  /\ notice = NoNotice
  /\ pre = [list |-> <<>>, confirmIndex |-> -1, confirmPrev |-> NoItem]

SpecPicking == InitPicking /\ [][Next]_vars

\* the state right after the branch x and its worktree were created from the name
\* editor (keys a, n, x, enter, with both listings loaded): the refresh is pending
InitTyping ==
  /\ state = "stateList"
  /\ list = <<AddWorktreeItem>> \o
            [i \in 1..Len(InitWts) |->
               WorktreeItem(ListWorktrees(PorcelainOf(InitWts))[i])]
  /\ listIdx = 0
  /\ branches = <<AddBranchItem>> \o
                [i \in 1..3 |->
                   BranchItem(ListBranchesDetailed(
                     TRUE, LocalLinesOf(<< <<"m">>, <<"b">> >>), TRUE, RemoteRefs)[i])]
  /\ brIdx = 0
  /\ input = <<"x">> /\ focus = FALSE /\ editing = FALSE
  /\ confirmIndex = -1 /\ confirmPrev = NoItem /\ selected = NoWorktree
  /\ repoWts = Append(InitWts, [Path |-> DefaultWorktreeDir(<<"x">>),
                                Branch |-> RefsHeads \o <<"x">>, HEAD |-> HeadCommit])
  /\ repoBr = << <<"m">>, <<"b">>, <<"x">> >>
  /\ mutations = 1
  /\ callIn = NoCall /\ callOut = NoResult
  /\ runLW = 1 /\ runLB = 0 /\ msgs = EmptyBag
  /\ quit = FALSE /\ editor = "none"
  /\ ev = Event("key", "enter")
  /\ calls = <<Call("CreateWorktree", <<"x">>, DefaultWorktreeDir(<<"x">>), TRUE, TRUE)>>
  /\ cmds = <<"loadWorktrees">>
  /\ notice = Notice("list", "Created worktree", Base(DefaultWorktreeDir(<<"x">>)))
  /\ pre = [list |-> list, confirmIndex |-> -1, confirmPrev |-> NoItem]

\* the machine after that creation, with the command keys also pressed while editing
NextTyping ==
  \/ Next
  \/ KeyEditCommandKey

SpecTyping == InitTyping /\ [][NextTyping]_vars

\* --------------------------------------- the git layer, one call at a time
\* git.ListWorktrees as called: the exit status of git, then the parse
ListWorktreesResult(ok, lines) ==
  IF ok THEN Result(ListWorktrees(lines), FALSE) ELSE Result(<<>>, TRUE)

\* git.ListBranchesDetailed as called: it returns a nil error on every path
ListBranchesResult(okLocal, localLines, okRemote, remoteLines) ==
  Result(ListBranchesDetailed(okLocal, localLines, okRemote, remoteLines), FALSE)

\* attribute blocks `git worktree list --porcelain` prints: a "worktree" line
\* followed by attribute lines in any order, known or not
BlockShapes ==
  { << WorktreePfx \o Cwd, HEADPfx \o HeadCommit, BranchPfx \o RefsHeads \o <<"m">>, <<>> >>,
    << WorktreePfx \o <<"/", "p", "/", "w">>, HEADPfx \o HeadCommit, DetachedPfx, <<>> >>,
    << WorktreePfx \o <<"/", "p", "/", "g">>, BarePfx, <<>> >>,
    << WorktreePfx \o <<" ", "/", "p", "/", "s", " ">>, BranchPfx \o RefsHeads \o <<"b">>,
       <<"l", "o", "c", "k", "e", "d">>, HEADPfx \o HeadCommit, <<>> >>,
    << WorktreePfx \o <<"/", "p", "/", "t">> >> }

\* lines `git for-each-ref refs/heads` prints: "name|upstream"
LocalLineShapes ==
  { <<"m", "|", "o", "/", "m">>, <<"b", "|">>, <<"y", "|", "u", "/", "y">>,
    <<" ", "x", " ", "|", " ">> }

\* lines `git for-each-ref refs/remotes` prints: "remote/name"
RemoteLineShapes ==
  { <<"o", "/", "H", "E", "A", "D">>, <<"o", "/", "m">>, <<"o", "/", "y">>,
    <<"u", "/", "y">>, <<"o", "/", "b">> }

\* lines that can precede the first "worktree" line of a text
PreambleShapes ==
  { <<>>,
    << BranchPfx \o RefsHeads \o <<"z">> >>,
    << HEADPfx \o <<"9">>, <<"l", "o", "c", "k", "e", "d">> >>,
    << BranchPfx \o RefsHeads \o <<"z">>, HEADPfx \o <<"9">> >> }

SeqsUpTo(S, n) == UNION {[1..k -> S] : k \in 0..n}

\* git prints every ref once
InjSeqsUpTo(S, n) ==
  {sq \in SeqsUpTo(S, n) : \A i, j \in 1..Len(sq) : i # j => sq[i] # sq[j]}

\* the lines of a text given block by block
RECURSIVE Concat(_)
Concat(blocks) == IF blocks = <<>> THEN <<>> ELSE Head(blocks) \o Concat(Tail(blocks))

\* arguments the mutation functions can be called with
BranchArgs == {<<>>, <<"b">>, <<"x">>, <<"y">>}
DirArgs == {<<>>, <<"/", "p", "/", "w">>, <<"/", "p", "/", "r", "-", "x">>}
RefArgs == {<<>>, <<"o", "/", "y">>, <<"o", "/", "z">>}

\* working directories os.Getwd can return, and names asked a directory for
CwdArgs == {Cwd, <<"/", "r">>, <<"/", "p", "/", "q">>}
NameArgs == {<<"b">>, <<"x">>, <<"x", "/", "y">>, <<"x", "/">>, <<"r", "-", "b">>}

\* one call of a function of the git package is about to be made
InitCall ==
  /\ InitModel
  /\ callOut = NoResult
  /\ \/ \E ok \in BOOLEAN, cwd \in CwdArgs, b1 \in NameArgs, b2 \in NameArgs :
          callIn = CallIn("DefaultWorktreeDir", ok, FALSE, cwd, b1, b2)
     \/ \E flag \in BOOLEAN, b \in BranchArgs, d \in DirArgs :
          callIn = CallIn("CreateWorktree", flag, FALSE, b, d, <<>>)
     \/ \E b \in BranchArgs, d \in DirArgs, r \in RefArgs :
          callIn = CallIn("CreateWorktreeFromRef", FALSE, FALSE, b, d, r)
     \/ \E flag \in BOOLEAN, p \in DirArgs :
          callIn = CallIn("RemoveWorktree", flag, FALSE, p, <<>>, <<>>)
     \/ \E ok \in BOOLEAN, bs \in SeqsUpTo(BlockShapes, MaxBlocks),
           pa \in PreambleShapes :
          callIn = CallIn("ListWorktrees", ok, FALSE, bs, pa, <<>>)
     \/ \E okL \in BOOLEAN, okR \in BOOLEAN,
           ll \in InjSeqsUpTo(LocalLineShapes, MaxLines),
           rl \in InjSeqsUpTo(RemoteLineShapes, MaxLines) :
          callIn = CallIn("ListBranchesDetailed", okL, okR, ll, rl, <<>>)

CallListWorktrees ==
  /\ callIn.op = "ListWorktrees" /\ ~callOut.done
  /\ callOut' = ListWorktreesResult(callIn.ok1, callIn.y \o Concat(callIn.x))
  /\ UNCHANGED <<callIn, repoWts, repoBr, mutations, ui, async, proc, hist>>

CallListBranchesDetailed ==
  /\ callIn.op = "ListBranchesDetailed" /\ ~callOut.done
  /\ callOut' = ListBranchesResult(callIn.ok1, callIn.x, callIn.ok2, callIn.y)
  /\ UNCHANGED <<callIn, repoWts, repoBr, mutations, ui, async, proc, hist>>

\* a mutation call returns: what it did outside the process, and its error
Returned(o) ==
  /\ callOut' = Result(o.ext, ~o.ok)
  /\ repoWts' = o.wts
  /\ repoBr' = o.brs
  /\ mutations' = IF o.ok THEN mutations + 1 ELSE mutations
  /\ UNCHANGED <<callIn, ui, async, proc, hist>>

CallCreateWorktree ==
  /\ callIn.op = "CreateWorktree" /\ ~callOut.done
  /\ \E o \in CreateWorktree(callIn.x, callIn.y, callIn.ok1) : Returned(o)

CallCreateWorktreeFromRef ==
  /\ callIn.op = "CreateWorktreeFromRef" /\ ~callOut.done
  /\ \E o \in CreateWorktreeFromRef(callIn.x, callIn.y, callIn.z) : Returned(o)

CallRemoveWorktree ==
  /\ callIn.op = "RemoveWorktree" /\ ~callOut.done
  /\ \E o \in RemoveWorktree(callIn.x, callIn.ok1) : Returned(o)

\* DefaultWorktreeDir is called for one name, then for another, in the same
\* working directory
CallDefaultWorktreeDir ==
  /\ callIn.op = "DefaultWorktreeDir" /\ ~callOut.done
  /\ callOut' = Result(<<DefaultWorktreeDirIn(callIn.ok1, callIn.x, callIn.y),
                         DefaultWorktreeDirIn(callIn.ok1, callIn.x, callIn.z)>>, FALSE)
  /\ UNCHANGED <<callIn, repoWts, repoBr, mutations, ui, async, proc, hist>>

NextCall ==
  \/ CallDefaultWorktreeDir
  \/ CallListWorktrees
  \/ CallListBranchesDetailed
  \/ CallCreateWorktree
  \/ CallCreateWorktreeFromRef
  \/ CallRemoveWorktree

SpecCall == InitCall /\ [][NextCall]_vars

TypeOK ==
  /\ state \in {"stateList", "stateAddPick"}
  /\ confirmIndex \in -1..MaxWorktrees
  /\ Len(input) <= MaxBuf
  /\ Outstanding <= MaxOutstanding + MaxMutations

\* ---------------------------------------------------------- properties
\* a step in which Update consumed an event (a command run is not one)
UpdateStep == runLW' >= runLW /\ runLB' >= runLB

\* titles and descriptions of a list, entry by entry
View(items) == [i \in 1..Len(items) |-> <<items[i].title, items[i].desc>>]

\* the last event was a `d` that put an overlay on the selected item
DConfirmed == ev = Event("key", "d") /\ list # pre.list

RemoveCalls(cs) == {i \in 1..Len(cs) : cs[i].op = "RemoveWorktree"}
CreateCalls(cs) == {i \in 1..Len(cs) : cs[i].op = "CreateWorktree"}

\* C1: RemoveWorktree is never invoked with the path of the primary worktree:
\* neither the repository's main checkout nor a path a list item marks IsMain.
C1_NeverRemovesPrimary ==
  \A c \in RemoveCalls(calls) :
    /\ calls[c].path # repoWts[1].Path
    /\ \A i \in 1..Len(list) : list[i].wt.IsMain => list[i].wt.Path # calls[c].path

\* a removal was invoked while the list showed the primary worktree
C1_Witness ==
  /\ RemoveCalls(calls) # {}
  /\ \E i \in 1..Len(list) : list[i].wt.IsMain

\* C2: `d` with the cursor on the primary entry only emits the "cannot delete"
\* notice: no removal, and mode, list, confirmation index and snapshot unchanged.
C2_DeletePrimaryRejected ==
  [][(/\ UpdateStep
      /\ ev' = Event("key", "d")
      /\ state = "stateList"
      /\ HasSelected(list, listIdx)
      /\ SelectedItem(list, listIdx).wt.IsMain)
     => (/\ notice' = Notice("list", "Cannot delete main worktree", <<>>)
         /\ calls' = <<>>
         /\ state' = state
         /\ list' = list
         /\ confirmIndex' = confirmIndex
         /\ confirmPrev' = confirmPrev)]_vars

\* `d` was pressed on the primary entry while a confirmation was pending elsewhere
C2_Witness ==
  /\ ev = Event("key", "d")
  /\ notice.kind = "Cannot delete main worktree"
  /\ confirmIndex # -1

\* C3 as stated: `d` on a deletable entry, then esc, leaves the list (titles and
\* descriptions) as it was before the `d`, with no confirmation pending.
C3_Original ==
  [][(UpdateStep /\ DConfirmed /\ ev' = Event("key", "esc"))
     => (View(list') = View(pre.list) /\ confirmIndex' = -1)]_vars

\* the list before the `d`, with the entry whose confirmation was pending (if it
\* is another entry than the one `d` was pressed on) put back from its snapshot
C3_Expected ==
  IF pre.confirmIndex # -1 /\ pre.confirmIndex # confirmIndex
  THEN [i \in 1..Len(pre.list) |->
          IF i = pre.confirmIndex + 1 THEN pre.confirmPrev ELSE pre.list[i]]
  ELSE pre.list

\* C3 amended: `d` on a deletable entry i, then esc, leaves no confirmation
\* pending and every entry as before the `d`, except that an entry j # i whose
\* confirmation was pending at the `d` shows its saved snapshot again.
C3_ConfirmEscRoundTrip ==
  [][(UpdateStep /\ DConfirmed /\ ev' = Event("key", "esc"))
     => (View(list') = View(C3_Expected) /\ confirmIndex' = -1)]_vars

\* esc has just cancelled a confirmation and put the entry's content back
C3_Witness ==
  /\ ev = Event("key", "esc")
  /\ state = "stateList"
  /\ pre.confirmIndex # -1 /\ confirmIndex = -1
  /\ View(list) # View(pre.list)

\* the entry carries the confirmation overlay
HasOverlay(it) == OverlayDepth(it) > 0

\* C4: at most one entry of the worktree list carries the confirmation overlay.
C4_AtMostOneOverlay ==
  Cardinality({i \in 1..Len(list) : HasOverlay(list[i])}) <= 1

\* a worktree was created or removed successfully by the last Update
MutationSucceeded ==
  \E i \in 1..Len(calls) :
    calls[i].op \in {"CreateWorktree", "RemoveWorktree"} /\ calls[i].ok

\* C5: right after `r`, and right after Listing is entered through a successful
\* creation or removal, no delete confirmation is pending.
C5_RefreshClearsConfirmation ==
  (/\ ev.kind = "key"
   /\ state = "stateList"
   /\ (ev.key = "r" \/ MutationSucceeded))
  => confirmIndex = -1

\* C6: `d` on a non-primary entry with path p, then enter, invokes
\* RemoveWorktree exactly once, with path p and force = TRUE; every removal the
\* state machine invokes passes force = TRUE.
C6_ConfirmedDeleteRemovesForced ==
  [][UpdateStep =>
       /\ (DConfirmed /\ ev' = Event("key", "enter"))
          => (/\ Len(calls') = 1
              /\ calls'[1].op = "RemoveWorktree"
              /\ calls'[1].path = pre.list[listIdx + 1].wt.Path
              /\ calls'[1].flag = TRUE)
       /\ \A c \in RemoveCalls(calls') : calls'[c].flag = TRUE]_vars

\* enter on the confirmed entry removed the worktree
C6_Witness ==
  /\ ev = Event("key", "enter")
  /\ \E c \in RemoveCalls(calls) : calls[c].ok /\ calls[c].flag
  /\ Len(repoWts) < Len(InitWts)

\* the last Update removed a worktree successfully
RemovedOk == \E c \in RemoveCalls(calls) : calls[c].ok

\* C7: a successful removal of p requests a refresh, and the listing-loaded event
\* consumed next (here: as the very next event) yields a list without p.
C7_NextListingOmitsRemoved ==
  [][UpdateStep =>
       /\ (\E c \in RemoveCalls(calls') : calls'[c].ok) => cmds' = <<"loadWorktrees">>
       /\ (/\ RemovedOk
           /\ ev' = Event("msg", "loadedWorktrees")
           /\ notice'.kind # "Error")
          => \A c \in RemoveCalls(calls) :
               \A i \in 1..Len(list') : list'[i].wt.Path # calls[c].path]_vars

\* C8: when RemoveWorktree fails after enter on the item under confirmation, the
\* item is put back from its snapshot, no confirmation stays pending, an error
\* notice is emitted, the mode stays Listing and no refresh is requested.
C8_FailedRemoveRestores ==
  [][(UpdateStep /\ \E c \in RemoveCalls(calls') : ~calls'[c].ok)
     => (/\ list' = [i \in 1..Len(list) |->
                       IF i = confirmIndex + 1 THEN confirmPrev ELSE list[i]]
         /\ confirmIndex' = -1
         /\ notice'.kind = "Error" /\ notice'.on = "list"
         /\ state' = "stateList"
         /\ cmds' = <<>>
         /\ runLW' = runLW)]_vars

\* a removal failed and the entry shows its snapshot again
C8_Witness ==
  /\ ev = Event("key", "enter")
  /\ \E c \in RemoveCalls(calls) : ~calls[c].ok
  /\ confirmIndex = -1
  /\ list # pre.list

\* C9: in the inline editor, enter with trimmed buffer b # "" invokes
\* CreateWorktree(b, DefaultWorktreeDir(b), TRUE); enter with an empty or
\* whitespace-only buffer invokes nothing and leaves mode and buffer unchanged.
C9_EditEnterCreates ==
  [][(/\ UpdateStep
      /\ state = "stateAddPick" /\ editing
      /\ ev' = Event("key", "enter"))
     => LET b == TrimSpace(input)
        IN IF b # <<>>
           THEN /\ Len(calls') = 1
                /\ calls'[1].op = "CreateWorktree"
                /\ calls'[1].branch = b
                /\ calls'[1].path = <<"/", "p", "/", "r", "-">> \o b
                /\ calls'[1].path = DefaultWorktreeDir(b)
                /\ calls'[1].flag = TRUE
           ELSE /\ calls' = <<>> /\ cmds' = <<>>
                /\ state' = state /\ editing' = editing /\ input' = input
                /\ repoWts' = repoWts]_vars

\* the inline editor created a new branch's worktree
C9_Witness ==
  /\ ev = Event("key", "enter")
  /\ \E c \in CreateCalls(calls) : calls[c].flag /\ calls[c].ok
  /\ state = "stateList"

\* enter was pressed in the inline editor on a whitespace-only buffer
C9_WitnessBlank ==
  /\ ev = Event("key", "enter")
  /\ state = "stateAddPick" /\ editing
  /\ input = <<" ">> /\ calls = <<>>

\* C10: a creation from the picker or the inline editor that succeeds enters
\* Listing, requests a refresh and emits a notice; one that fails emits an error
\* notice, keeps mode, editing flag and buffer, and requests no refresh.
C10_CreateOutcome ==
  [][(UpdateStep /\ CreateCalls(calls') # {})
     => IF \E c \in CreateCalls(calls') : calls'[c].ok
        THEN /\ state' = "stateList"
             /\ cmds' = <<"loadWorktrees">> /\ runLW' = runLW + 1
             /\ notice'.kind = "Created worktree" /\ notice'.on = "list"
        ELSE /\ notice'.kind = "Error" /\ notice'.on = "branches"
             /\ state' = state /\ editing' = editing /\ input' = input
             /\ cmds' = <<>> /\ runLW' = runLW]_vars

\* a creation failed in the inline editor, which stays open
C10_Witness ==
  /\ ev = Event("key", "enter")
  /\ \E c \in CreateCalls(calls) : ~calls[c].ok
  /\ state = "stateAddPick" /\ editing /\ notice.kind = "Error"

\* C11: in the picker (not editing), enter on a remote branch entry invokes
\* CreateWorktreeFromRef for the branch's short name and DefaultWorktreeDir(short
\* name) (with the full remote ref as source); enter on a local branch entry
\* invokes CreateWorktree with createBranch = FALSE.
C11_PickEnterByKind ==
  [][(/\ UpdateStep
      /\ state = "stateAddPick" /\ ~editing
      /\ ev' = Event("key", "enter")
      /\ HasSelected(branches, brIdx)
      /\ ~SelectedItem(branches, brIdx).isAdd)
     => LET b == SelectedItem(branches, brIdx).br
        IN /\ Len(calls') = 1
           /\ calls'[1].branch = b.Name
           /\ calls'[1].path = DefaultWorktreeDir(b.Name)
           /\ IF b.IsRemote
              THEN calls'[1].op = "CreateWorktreeFromRef"
              ELSE calls'[1].op = "CreateWorktree" /\ calls'[1].flag = FALSE]_vars

\* C12: in every mode (Listing with or without a pending confirmation, the
\* picker, the inline editor) ctrl+c can be pressed and terminates the program;
\* it triggers no mutation and reaches neither the input buffer nor a list.
C12_CtrlCTerminates ==
  /\ [](Running => ENABLED (KeyQuit /\ ev' = Event("key", "ctrl+c")))
  /\ [][ev' = Event("key", "ctrl+c")
        => (quit' /\ calls' = <<>> /\ UNCHANGED <<ui, world, async>>)]_vars

\* ctrl+c ended the program from the inline editor, a confirmation still pending
C12_Witness ==
  /\ quit /\ ev = Event("key", "ctrl+c")
  /\ state = "stateAddPick" /\ editing /\ focus
  /\ input # <<>>
  /\ confirmIndex # -1

\* C13: a successful listing-loaded event consumed while the picker is open
\* (editing or not) replaces the worktree list with the new listing and changes
\* neither the mode, the branch list nor the input buffer.
C13_ListingWhilePicking ==
  [][\A m \in BagToSet(msgs) :
       (/\ state = "stateAddPick"
        /\ m.type = "loadedWorktrees" /\ ~m.err
        /\ msgs' = msgs (-) SetToBag({m}))
       => (/\ Len(list') = Len(m.wts) + 1
           /\ list'[1].isAdd
           /\ \A i \in 1..Len(m.wts) : list'[i + 1].wt = m.wts[i]
           /\ UNCHANGED <<state, editing, branches, brIdx, input, focus>>)]_vars

\* a listing arrived while a branch name was being typed in the picker
C13_Witness ==
  /\ ev = Event("msg", "loadedWorktrees") /\ notice = NoNotice
  /\ state = "stateAddPick" /\ editing
  /\ input # <<>>
  /\ Len(branches) > 1
  /\ Len(list) > 1 /\ pre.list = <<>>

\* the cursor is on an ordinary worktree entry that is not awaiting confirmation
OnOrdinaryEntry ==
  /\ state = "stateList"
  /\ HasSelected(list, listIdx)
  /\ ~SelectedItem(list, listIdx).isAdd
  /\ SelectedItem(list, listIdx).wt.Path # <<>>
  /\ ~EnterConfirms

EnvReads(cs) == {i \in 1..Len(cs) : cs[i].op = "Getenv"}
ExecCalls(cs) == {i \in 1..Len(cs) : cs[i].op = "exec"}

\* C14: in Listing, enter on an ordinary worktree entry (an editor being
\* configured; C15 is the other case) requests exactly one editor launch with the
\* entry's path and invokes no mutation; once the editor runs, the only thing
\* that happens is its exit, which terminates the program whatever its status.
C14_EnterOpensEditor ==
  [][UpdateStep =>
       /\ (OnOrdinaryEntry /\ ev' = Event("key", "enter"))
          => /\ Cardinality(EnvReads(calls')) = 1
             /\ (\E i \in EnvReads(calls') : calls'[i].branch # <<>> \/ calls'[i].path # <<>>)
                => /\ Cardinality(ExecCalls(calls')) = 1
                   /\ \A j \in ExecCalls(calls') :
                        calls'[j].path = SelectedItem(list, listIdx).wt.Path
                   /\ cmds' = <<"exec">> /\ editor' = "running"
                   /\ RemoveCalls(calls') = {} /\ CreateCalls(calls') = {}
                   /\ UNCHANGED <<ui, world>>
       /\ editor = "running"
          => /\ ev' \in {Event("msg", "editorDone"), Event("msg", "editorDoneErr")}
             /\ quit' /\ editor' = "none"
             /\ calls' = <<>>
             /\ UNCHANGED <<ui, world>>]_vars

\* the editor launched from the list exited with an error and the program ended
C14_Witness ==
  /\ quit /\ editor = "none"
  /\ ev = Event("msg", "editorDoneErr")
  /\ OnOrdinaryEntry

\* C15: with neither VISUAL nor EDITOR set, enter on an ordinary worktree entry
\* launches nothing, emits a notice and leaves mode and list unchanged; the
\* program does not terminate.
C15_NoEditorConfigured ==
  [][(/\ UpdateStep
      /\ OnOrdinaryEntry /\ ev' = Event("key", "enter")
      /\ \A i \in EnvReads(calls') : calls'[i].branch = <<>> /\ calls'[i].path = <<>>)
     => (/\ ExecCalls(calls') = {} /\ cmds' = <<>>
         /\ editor' = "none" /\ ~quit'
         /\ notice'.kind = "No editor" /\ notice'.on = "list"
         /\ UNCHANGED <<ui, world>>)]_vars

\* enter found no editor configured and the list is still shown
C15_Witness ==
  /\ ev = Event("key", "enter")
  /\ \E i \in EnvReads(calls) : calls[i].branch = <<>> /\ calls[i].path = <<>>
  /\ notice.kind = "No editor"
  /\ state = "stateList" /\ ~quit /\ editor = "none"

\* C16: the editor is VISUAL when VISUAL is non-empty, whatever EDITOR is;
\* otherwise EDITOR when that is non-empty; it is started with the worktree's
\* path as its only argument.
C16_EditorPrecedence ==
  [][UpdateStep =>
       \A i \in EnvReads(calls') :
         LET visual == calls'[i].branch
             editorVar == calls'[i].path
         IN (visual # <<>> \/ editorVar # <<>>)
            => \E j \in ExecCalls(calls') :
                 /\ calls'[j].branch = (IF visual # <<>> THEN visual ELSE editorVar)
                 /\ calls'[j].path = SelectedItem(list, listIdx).wt.Path
                 /\ ExecCalls(calls') = {j}]_vars

\* both variables were set to different editors and VISUAL's was launched
C16_Witness ==
  /\ editor = "running"
  /\ \E i \in EnvReads(calls), j \in ExecCalls(calls) :
       /\ calls[i].branch # <<>> /\ calls[i].path # <<>>
       /\ calls[i].branch # calls[i].path
       /\ calls[j].branch = calls[i].branch

\* the path written on the first line of an attribute block
BlockPath(block) == TrimSpace(TrimPrefix(block[1], WorktreePfx))

\* C17: for a well-formed text of N attribute blocks ListWorktrees returns
\* exactly N records, in block order, the first with IsMain = TRUE and every
\* other one with IsMain = FALSE, whatever the blocks contain.
C17_OneRecordPerBlock ==
  (callIn.op = "ListWorktrees" /\ callIn.ok1 /\ callOut.done)
  => LET wts == callOut.val
         N == Len(callIn.x)
     IN /\ ~callOut.err
        /\ Len(wts) = N
        /\ \A i \in 1..N : wts[i].Path = BlockPath(callIn.x[i])
        /\ \A i \in 1..N : wts[i].IsMain = (i = 1)
        /\ N > 0 => Cardinality({i \in 1..N : wts[i].IsMain}) = 1

\* a listing of MaxBlocks blocks, the first one a bare entry, has been parsed
C17_Witness ==
  /\ callIn.op = "ListWorktrees" /\ callIn.ok1 /\ callOut.done
  /\ Len(callIn.x) = MaxBlocks
  /\ callIn.x[1] = << WorktreePfx \o <<"/", "p", "/", "g">>, BarePfx, <<>> >>
  /\ callIn.x[2] = callIn.x[3]
  /\ Len(callOut.val) = MaxBlocks /\ callOut.val[1].IsMain

\* the short name on a local query line, the text before "|"
LocalLineName(l) ==
  LET k == IndexOf(l, "|") IN TrimSpace(IF k = 0 THEN l ELSE SubSeq(l, 1, k - 1))

\* the short name of a remote ref, the text after the first "/"
RemoteShortName(l) == SubSeq(l, IndexOf(l, "/") + 1, Len(l))

\* local branches and remote refs the two queries of the call listed
ListedLocals == IF callIn.ok1 THEN {LocalLineName(callIn.x[i]) : i \in 1..Len(callIn.x)} ELSE {}
ListedRemotes == IF callIn.ok2 THEN callIn.y ELSE <<>>

\* the returned listing has exactly one entry named n, and it is local
OnlyLocalEntry(n) ==
  /\ Cardinality({j \in 1..Len(callOut.val) : callOut.val[j].Name = n}) = 1
  /\ \A j \in 1..Len(callOut.val) : callOut.val[j].Name = n => ~callOut.val[j].IsRemote

\* the returned listing has a remote entry for remote ref l
RemoteEntry(l) ==
  \E j \in 1..Len(callOut.val) :
    /\ callOut.val[j].IsRemote
    /\ callOut.val[j].RemoteRef = l
    /\ callOut.val[j].Name = RemoteShortName(l)

\* C18 as stated: a remote ref whose short name is a listed local branch's gives
\* exactly one entry of that name, the local one; every other remote ref (symbolic
\* HEAD pointers aside, see C19) appears as a remote entry.
C18_Original ==
  (callIn.op = "ListBranchesDetailed" /\ callOut.done)
  => \A i \in 1..Len(ListedRemotes) :
       LET l == ListedRemotes[i]
       IN ~HasSuffix(l, <<"/", "H", "E", "A", "D">>)
          => IF RemoteShortName(l) \in ListedLocals
             THEN OnlyLocalEntry(RemoteShortName(l))
             ELSE RemoteEntry(l)

\* C18 amended: a remote ref whose short name is a listed local branch's gives
\* exactly one entry of that name, the local one; a remote ref (not a HEAD pointer)
\* whose short name is neither a listed local branch's nor that of an earlier
\* remote ref appears as a remote entry; a later remote ref of the same short
\* name is suppressed, so that every short name is listed once.
C18_LocalWinsCollision ==
  (callIn.op = "ListBranchesDetailed" /\ callOut.done)
  => \A i \in 1..Len(ListedRemotes) :
       LET l == ListedRemotes[i]
           n == RemoteShortName(l)
       IN ~HasSuffix(l, <<"/", "H", "E", "A", "D">>)
          => /\ Cardinality({j \in 1..Len(callOut.val) : callOut.val[j].Name = n}) = 1
             /\ IF n \in ListedLocals THEN OnlyLocalEntry(n)
                ELSE IF \E h \in 1..(i - 1) : RemoteShortName(ListedRemotes[h]) = n
                THEN ~RemoteEntry(l)
                ELSE RemoteEntry(l)

\* local m and remote refs o/m, o/y were merged: m is listed once, as local, and
\* y as a remote entry
C18_Witness ==
  /\ callIn.op = "ListBranchesDetailed" /\ callOut.done
  /\ callIn.ok1 /\ callIn.ok2
  /\ callIn.x = << <<"m", "|", "o", "/", "m">> >>
  /\ callIn.y = << <<"o", "/", "m">>, <<"o", "/", "y">> >>
  /\ Len(callOut.val) = 2
  /\ ~callOut.val[1].IsRemote /\ callOut.val[2].IsRemote

\* C19: no entry of the listing ListBranchesDetailed returns has a full remote
\* ref ending in /HEAD.
C19_NoHeadPointer ==
  (callIn.op = "ListBranchesDetailed" /\ callOut.done)
  => \A j \in 1..Len(callOut.val) :
       ~HasSuffix(callOut.val[j].RemoteRef, <<"/", "H", "E", "A", "D">>)

\* the remote query listed o/HEAD beside a branch, and the branch was returned
C19_Witness ==
  /\ callIn.op = "ListBranchesDetailed" /\ callOut.done
  /\ callIn.ok2
  /\ callIn.y = << <<"o", "/", "H", "E", "A", "D">>, <<"o", "/", "y">> >>
  /\ \E j \in 1..Len(callOut.val) : callOut.val[j].RemoteRef = <<"o", "/", "y">>

\* C20: a failed query makes the call fail: ListWorktrees and
\* ListBranchesDetailed return an error and no entries when one of their
\* queries exits non-zero, never a partly-populated result.
C20_FailuresSurface ==
  callOut.done
  => /\ (callIn.op = "ListWorktrees" /\ ~callIn.ok1)
        => (callOut.err /\ callOut.val = <<>>)
     /\ (callIn.op = "ListBranchesDetailed" /\ (~callIn.ok1 \/ ~callIn.ok2))
        => (callOut.err /\ callOut.val = <<>>)

\* C21: CreateWorktree fails without running anything when branch or targetDir
\* is empty, CreateWorktreeFromRef also when fromRef is empty, RemoveWorktree
\* when path is empty; with the arguments present, the creations make the
\* parent directory before they run the tool.
C21_ArgumentChecks ==
  callOut.done
  => /\ callIn.op = "CreateWorktree"
        => IF callIn.x = <<>> \/ callIn.y = <<>>
           THEN callOut.err /\ callOut.val = <<>>
           ELSE callOut.val \in {<<"mkdir">>, <<"mkdir", "git">>}
     /\ callIn.op = "CreateWorktreeFromRef"
        => IF callIn.x = <<>> \/ callIn.y = <<>> \/ callIn.z = <<>>
           THEN callOut.err /\ callOut.val = <<>>
           ELSE callOut.val \in {<<"mkdir">>, <<"mkdir", "git">>}
     /\ callIn.op = "RemoveWorktree"
        => IF callIn.x = <<>>
           THEN callOut.err /\ callOut.val = <<>>
           ELSE callOut.val = <<"git">>
     /\ callIn.op \in {"CreateWorktree", "CreateWorktreeFromRef", "RemoveWorktree"}
        => (~callOut.err => callOut.val[Len(callOut.val)] = "git")

\* CreateWorktree was called with a branch and no directory, and failed at once
C21_Witness ==
  /\ callIn.op = "CreateWorktree" /\ callOut.done
  /\ callIn.x # <<>> /\ callIn.y = <<>>
  /\ callOut.err /\ callOut.val = <<>>

\* a name git accepts for a branch, as far as separators and blanks go
ValidBranchName(b) ==
  /\ b # <<>>
  /\ b[1] # "/" /\ b[Len(b)] # "/"
  /\ \A i \in 1..Len(b) : b[i] # " "

MutationCalls(cs) ==
  {i \in 1..Len(cs) :
     cs[i].op \in {"RemoveWorktree", "CreateWorktree", "CreateWorktreeFromRef"}}

\* C23: every invocation of git made by the state machine is dispatched as a
\* command that later delivers one completion event: no handler of an event runs
\* git itself before it returns (calls holds what the handler of the last event
\* called before returning; cmds holds what it dispatched).
C23_GitNeverRunsInUpdate == MutationCalls(calls) = {}

\* the four modes of the interface, read from the fields of the model
ConfirmingDelete == confirmIndex >= 0
PickingBranch == state = "stateAddPick" /\ ~editing
EditingNewBranchName == state = "stateAddPick" /\ editing
Listing == state = "stateList" /\ ~ConfirmingDelete

OnAddWorktree == HasSelected(list, listIdx) /\ SelectedItem(list, listIdx).isAdd
OnAddBranch == HasSelected(branches, brIdx) /\ SelectedItem(branches, brIdx).isAdd

\* C25: a synthetic entry is never the target of a mutation. `d` on the "add new
\* worktree" entry changes nothing and starts no confirmation; enter on a
\* synthetic entry only switches mode (list: to the picker, picker: to the name
\* editor) and calls nothing; and every RemoveWorktree, picker CreateWorktree and
\* editor launch is made with the path or branch of an entry that is not
\* synthetic.
C25_SyntheticNeverTarget ==
  [][UpdateStep =>
       /\ (state = "stateList" /\ OnAddWorktree /\ ev' = Event("key", "d"))
          => /\ UNCHANGED <<ui, world, async, proc>>
             /\ calls' = <<>> /\ cmds' = <<>> /\ notice' = NoNotice
       /\ (state = "stateList" /\ OnAddWorktree /\ ev' = Event("key", "enter"))
          => /\ state' = "stateAddPick" /\ ~editing'
             /\ calls' = <<>> /\ cmds' = <<"loadBranches">>
             /\ UNCHANGED <<list, confirmIndex, world>>
       /\ (state = "stateAddPick" /\ ~editing /\ OnAddBranch
           /\ ev' = Event("key", "enter"))
          => /\ state' = "stateAddPick" /\ editing'
             /\ calls' = <<>> /\ cmds' = <<>>
             /\ UNCHANGED <<list, world>>
       /\ \A c \in RemoveCalls(calls') :
            /\ calls'[c].path # <<>>
            /\ HasSelected(list, listIdx) /\ ~SelectedItem(list, listIdx).isAdd
            /\ calls'[c].path = confirmPrev.wt.Path
       /\ \A c \in ExecCalls(calls') :
            /\ calls'[c].path # <<>>
            /\ HasSelected(list, listIdx) /\ ~SelectedItem(list, listIdx).isAdd
            /\ calls'[c].path = SelectedItem(list, listIdx).wt.Path
       /\ \A c \in CreateCalls(calls') :
            /\ calls'[c].path # <<>> /\ calls'[c].branch # <<>>
            /\ ~editing
               => /\ HasSelected(branches, brIdx) /\ ~SelectedItem(branches, brIdx).isAdd
                  /\ calls'[c].branch = SelectedItem(branches, brIdx).br.Name]_vars

\* `d` was pressed with the cursor on the "add new worktree" entry of a list that
\* also holds worktrees: nothing is under confirmation
C25_Witness ==
  /\ ev = Event("key", "d") /\ state = "stateList"
  /\ Len(list) > 1 /\ OnAddWorktree
  /\ list = pre.list /\ confirmIndex = -1 /\ calls = <<>>

\* the entries of a branch list that stand for a branch of the repository
DomainEntries(items) == {i \in 1..Len(items) : items[i].br # NoBranch}

\* C26: in the picker, not editing, esc returns to the list and discards the
\* branch list: after it the branch list holds no entry that stands for a branch.
C26_PickEscDiscardsBranches ==
  [][(UpdateStep /\ state = "stateAddPick" /\ ~editing /\ ev' = Event("key", "esc"))
       => /\ state' = "stateList"
          /\ DomainEntries(branches') = {}]_vars

\* C27: in the name editor, esc leaves editing, puts the default label back on
\* the synthetic entry of the branch list, creates nothing, and leaves the
\* machine in the picker (not in the list).
C27_EditEscBackToPicker ==
  [][(UpdateStep /\ state = "stateAddPick" /\ editing /\ ev' = Event("key", "esc"))
       => /\ ~editing' /\ state' = "stateAddPick"
          /\ calls' = <<>> /\ cmds' = <<>>
          /\ UNCHANGED <<world, list, confirmIndex>>
          /\ Len(branches') = Len(branches)
          /\ \A i \in 1..Len(branches) :
               IF i = 1 /\ branches[1].isAdd
               THEN /\ branches'[1].title = AddBranchLabel
                    /\ branches'[1].isAdd
               ELSE branches'[i] = branches[i]]_vars

\* a name was typed, then esc: the picker shows the default label over the loaded
\* branches and the repository has not been touched
C27_Witness ==
  /\ ev = Event("key", "esc") /\ state = "stateAddPick" /\ ~editing
  /\ input # <<>>
  /\ Len(branches) > 1 /\ branches[1].isAdd /\ branches[1].title = AddBranchLabel
  /\ calls = <<>> /\ mutations = 0

\* C28: whenever the name editor is active and the branch list is not empty, the
\* title of the synthetic entry of the branch list is the content of the text
\* buffer, also after a branches-loaded event arrived during editing.
C28_TitleMirrorsBuffer ==
  (EditingNewBranchName /\ branches # <<>>) => branches[1].title = input

\* C29: in the picker, not editing, `n` from any cursor position, and enter on the
\* synthetic "create" entry, start the name editor with an empty buffer, whatever
\* the buffer held, and with the cursor on the first position, where the synthetic
\* entry is; neither calls a creation.
C29_StartEditing ==
  [][(/\ UpdateStep /\ state = "stateAddPick" /\ ~editing
      /\ \/ ev' = Event("key", "n")
         \/ ev' = Event("key", "enter") /\ OnAddBranch)
       => /\ editing' /\ state' = "stateAddPick"
          /\ input' = <<>>
          /\ brIdx' = 0
          /\ branches' # <<>> => branches'[1].isAdd /\ branches'[1].title = <<>>
          /\ calls' = <<>> /\ cmds' = <<>>
          /\ UNCHANGED <<world, list>>]_vars

\* `n` was pressed in the picker over the loaded branches: the editor is open on
\* the synthetic entry with an empty buffer
C29_Witness ==
  /\ ev = Event("key", "n") /\ state = "stateAddPick" /\ editing
  /\ input = <<>> /\ brIdx = 0
  /\ Len(branches) > 1 /\ OnAddBranch /\ branches[1].title = <<>>
  /\ calls = <<>>

\* value of the last line of a block that carries attribute pfx, empty if none
AttrOf(block, pfx) ==
  LET idx == {i \in 2..Len(block) : HasPrefix(block[i], pfx)}
  IN IF idx = {} THEN <<>>
     ELSE LET last == CHOOSE i \in idx : \A j \in idx : j <= i
          IN TrimSpace(TrimPrefix(block[last], pfx))

\* C30: ListWorktrees ignores every line that is not a path, branch or head
\* attribute; branch and head lines are attached to the block of the most recent
\* path line; such lines before the first path line produce no record and affect
\* none: each record carries the path, branch and head of its own block only.
C30_AttributesStayInBlock ==
  (callIn.op = "ListWorktrees" /\ callIn.ok1 /\ callOut.done)
  => /\ ~callOut.err
     /\ Len(callOut.val) = Len(callIn.x)
     /\ \A i \in 1..Len(callIn.x) :
          /\ callOut.val[i].Path = BlockPath(callIn.x[i])
          /\ callOut.val[i].Branch = AttrOf(callIn.x[i], BranchPfx)
          /\ callOut.val[i].HEAD = AttrOf(callIn.x[i], HEADPfx)

\* a text that starts with a branch and a HEAD line, then a block with a branch
\* and an unknown "locked" line, then a block of a path line alone: the second
\* record has neither branch nor head
C30_Witness ==
  /\ callIn.op = "ListWorktrees" /\ callIn.ok1 /\ callOut.done
  /\ callIn.y = << BranchPfx \o RefsHeads \o <<"z">>, HEADPfx \o <<"9">> >>
  /\ Len(callIn.x) = 2
  /\ <<"l", "o", "c", "k", "e", "d">> \in {callIn.x[1][j] : j \in 1..Len(callIn.x[1])}
  /\ callIn.x[2] = << WorktreePfx \o <<"/", "p", "/", "t">> >>
  /\ callOut.val[1].Branch = RefsHeads \o <<"b">>
  /\ callOut.val[2] = Worktree(<<"/", "p", "/", "t">>, <<>>, <<>>, FALSE)

\* position of remote ref l in the output of the remote query, 0 if absent
RemotePos(l) ==
  LET I == {i \in 1..Len(ListedRemotes) : ListedRemotes[i] = l}
  IN IF I = {} THEN 0 ELSE CHOOSE i \in I : TRUE

\* C31: in the merged listing of ListBranchesDetailed every local entry precedes
\* every remote entry, the local entries are the local query's lines in the order
\* git printed them, and the remote entries keep the relative order of the remote
\* query's lines.
C31_LocalFirstInGitOrder ==
  (callIn.op = "ListBranchesDetailed" /\ callOut.done)
  => LET brs == callOut.val
         nLocal == IF callIn.ok1 THEN Len(callIn.x) ELSE 0
     IN /\ \A i, j \in 1..Len(brs) : (i < j /\ brs[i].IsRemote) => brs[j].IsRemote
        /\ Len(brs) >= nLocal
        /\ \A i \in 1..nLocal :
             ~brs[i].IsRemote /\ brs[i].Name = LocalLineName(callIn.x[i])
        /\ \A i \in (nLocal + 1)..Len(brs) :
             brs[i].IsRemote /\ RemotePos(brs[i].RemoteRef) > 0
        /\ \A i, j \in (nLocal + 1)..Len(brs) :
             i < j => RemotePos(brs[i].RemoteRef) < RemotePos(brs[j].RemoteRef)

\* two local lines and two remote refs that collide with nothing: four entries,
\* the locals first, each pair in the order of its query
C31_Witness ==
  /\ callIn.op = "ListBranchesDetailed" /\ callOut.done /\ callIn.ok1 /\ callIn.ok2
  /\ Len(callIn.x) = 2 /\ Len(callIn.y) = 2 /\ Len(callOut.val) = 4
  /\ callOut.val[1].Name = LocalLineName(callIn.x[1])
  /\ callOut.val[2].Name = LocalLineName(callIn.x[2])
  /\ callOut.val[3].RemoteRef = callIn.y[1]
  /\ callOut.val[4].RemoteRef = callIn.y[2]

\* C32: whenever a delete confirmation is pending, the saved snapshot holds the
\* entry's content as the last listing produced it, never the text of a
\* confirmation overlay (so that esc puts the listing's text back).
C32_SnapshotIsOriginal ==
  confirmIndex # -1 => ~HasOverlay(confirmPrev)

\* C33: a worktree-list entry displays the confirmation overlay if and only if
\* its index is confirmIndex; with confirmIndex = -1 no entry displays it.
C33_OverlayIffConfirmIndex ==
  \A i \in 1..Len(list) : HasOverlay(list[i]) <=> (i - 1 = confirmIndex)

\* C34: whenever confirmIndex is not -1 it is a valid index of the worktree list,
\* the entry there stands for a worktree, is neither the synthetic entry nor the
\* primary worktree, and selected.Path, the remembered target of the deletion, is
\* the path of that entry's worktree.
C34_ConfirmIndexTarget ==
  confirmIndex # -1
  => /\ HasSelected(list, confirmIndex)
     /\ LET it == SelectedItem(list, confirmIndex)
        IN /\ ~it.isAdd
           /\ it.wt.Path # <<>>
           /\ ~it.wt.IsMain /\ it.wt.Path # Cwd
           /\ selected.Path = it.wt.Path

\* a confirmation is pending on the second linked worktree of the list
C34_Witness ==
  /\ confirmIndex = 3 /\ Len(list) = 4 /\ state = "stateList"
  /\ HasOverlay(list[4])
  /\ selected.Path = list[4].wt.Path /\ selected.Path # <<>>

\* no listing is being computed and no listing result waits to be consumed
NoListingOutstanding ==
  /\ runLW = 0
  /\ \A msg \in BagToSet(msgs) : msg.type # "loadedWorktrees"

\* C35: with overlapping listing requests whose completions arrive in any order,
\* once the last outstanding listing has been consumed (and was installed), the
\* worktree list shows the worktrees the repository has now.
C35_SettledListIsCurrent ==
  (/\ ev = Event("msg", "loadedWorktrees") /\ notice.kind # "Error"
   /\ NoListingOutstanding)
  => [i \in 1..(Len(list) - 1) |-> list[i + 1].wt.Path]
       = [i \in 1..Len(repoWts) |-> repoWts[i].Path]

\* C36: while the name editor is active, no key other than esc, enter and ctrl+c
\* changes the mode, requests a listing or calls a mutation: q, n, a, d and r, like
\* every other key, only change the text buffer (and the title that mirrors it).
C36_EditingKeysOnlyType ==
  [][(/\ UpdateStep /\ EditingNewBranchName
      /\ ev'.kind = "key" /\ ev'.key \notin {"esc", "enter", "ctrl+c"})
       => /\ state' = "stateAddPick" /\ editing'
          /\ calls' = <<>> /\ cmds' = <<>>
          /\ UNCHANGED <<world, async, proc>>
          /\ UNCHANGED <<list, listIdx, brIdx, focus, confirmIndex, confirmPrev, selected>>
          /\ focus => input' = TypeKey(input, ev'.key)
          /\ Len(branches') = Len(branches)
          /\ \A i \in 1..Len(branches) :
               IF i = 1 /\ branches[1].isAdd
               THEN branches'[1] = [branches[1] EXCEPT !.title = input']
               ELSE branches'[i] = branches[i]]_vars

\* `q` was typed into the empty buffer of the name editor: the program runs on,
\* still editing, and the buffer and the synthetic entry's title hold "q"
C36_Witness ==
  /\ ev = Event("key", "q") /\ EditingNewBranchName /\ ~quit
  /\ input = <<"q">>
  /\ Len(branches) > 1 /\ branches[1].title = <<"q">>
  /\ calls = <<>> /\ cmds = <<>>

\* pressing esc: the handler of whichever mode is active
KeyEsc == KeyListEsc \/ KeyEditEsc \/ KeyPickEsc

\* how many presses of esc the state is away from the plain list: one for the
\* name editor, one for the picker, one for a pending confirmation
EscDistance ==
  (IF editing THEN 1 ELSE 0) + (IF state = "stateAddPick" THEN 1 ELSE 0)
    + (IF confirmIndex # -1 THEN 1 ELSE 0)

\* C37: from every reachable state in which the program runs, at most three
\* presses of esc with nothing in between reach Listing with no confirmation
\* pending and editing off, and no press calls a mutation or ends the program:
\* esc can always be pressed, every press that is not already there comes one
\* step closer, and no state is more than three steps away.
C37_EscLeadsHome ==
  /\ [](Running => ENABLED KeyEsc)
  /\ [](EscDistance <= 3)
  /\ [](EscDistance = 0 <=> (Listing /\ ~editing))
  /\ [][(UpdateStep /\ Running /\ ev' = Event("key", "esc"))
         => /\ EscDistance' = IF EscDistance = 0 THEN 0 ELSE EscDistance - 1
            /\ calls' = <<>> /\ cmds' = <<>>
            /\ ~quit' /\ editor' = "none"
            /\ UNCHANGED <<world, async>>]_vars

\* the first of three presses: esc closed the name editor; the picker is open
\* and a delete confirmation is still pending
C37_Witness ==
  /\ ev = Event("key", "esc") /\ Running
  /\ state = "stateAddPick" /\ ~editing /\ confirmIndex # -1
  /\ EscDistance = 2

\* a list that was never loaded, or one with the synthetic entry first and nowhere
\* else
SyntheticFirstOnly(items) ==
  items # <<>> => /\ items[1].isAdd
                  /\ \A i \in 2..Len(items) : ~items[i].isAdd

\* the worktrees the entries after the first stand for
ShownWorktrees(items) == [i \in 1..(Len(items) - 1) |-> items[i + 1].wt]

\* C38: the worktree list and the branch list are each either empty (never
\* loaded) or have the synthetic entry at index 0 and at no other index; every
\* later entry of the worktree list carries a non-empty path, that of a worktree
\* of the last listing that loaded: only the consumption of a successful listing
\* changes the worktrees shown, and it shows that listing's.
C38_ListShape ==
  /\ [](SyntheticFirstOnly(list) /\ SyntheticFirstOnly(branches))
  /\ [](\A i \in 2..Len(list) : list[i].wt.Path # <<>>)
  /\ [][ShownWorktrees(list') # ShownWorktrees(list) \/ (list = <<>> /\ list' # <<>>)
         => \E msg \in BagToSet(msgs) :
              /\ msg.type = "loadedWorktrees" /\ ~msg.err
              /\ msgs' = msgs (-) SetToBag({msg})
              /\ ShownWorktrees(list') = msg.wts]_vars

\* both lists are loaded; a confirmation overlay is on the last worktree entry and
\* the synthetic branch entry shows a typed name
C38_Witness ==
  /\ Len(list) = 3 /\ Len(branches) = 4
  /\ list[1].isAdd /\ branches[1].isAdd
  /\ HasOverlay(list[3]) /\ list[3].wt.Path = <<"/", "p", "/", "w">>
  /\ editing /\ branches[1].title = <<"x">>

\* C39: the inline-editing flag is true only while the mode variable is
\* stateAddPick: every step that leaves stateAddPick leaves the flag false, and
\* every step that enters stateAddPick enters it with the flag false.
C39_EditingOnlyInPicker ==
  /\ [](editing => state = "stateAddPick")
  /\ [][(state = "stateAddPick" /\ state' # "stateAddPick") => ~editing']_vars
  /\ [][(state # "stateAddPick" /\ state' = "stateAddPick") => ~editing']_vars

\* a creation made from the name editor succeeded: the machine is back in the
\* list with the editing flag off
C39_Witness ==
  /\ ev = Event("key", "enter") /\ state = "stateList" /\ ~editing
  /\ \E c \in CreateCalls(calls) : calls[c].ok /\ calls[c].flag = EditCreateFlag
  /\ input # <<>>

\* C40: the mode variable is stateList or stateAddPick in every reachable state;
\* stateAddNewInput and stateConfirmDelete are never assigned, so their key
\* handlers, which would call CreateWorktree and RemoveWorktree, never run.
C40_OnlyTwoStates ==
  /\ [](state \in {"stateList", "stateAddPick"})
  /\ [](~ENABLED KeyAddNewInput /\ ~ENABLED KeyConfirmDelete)

\* a name is being typed while a delete confirmation is pending: both are inline,
\* the mode variable is stateAddPick and neither of the two older handlers can run
C40_Witness ==
  /\ state = "stateAddPick" /\ editing /\ input # <<>>
  /\ confirmIndex # -1 /\ selected.Path # <<>>
  /\ ~ENABLED KeyAddNewInput /\ ~ENABLED KeyConfirmDelete

====
